---- MODULE Spec2Model ----
(***************************************************************************)
(* A model of the C++ code generator of code_generator/generators/cpp.py:  *)
(* the language element objects, the Qualifier decorator chain, the brace  *)
(* strategies and the declaration / definition renderers.                  *)
(*                                                                         *)
(* Objects live in two heaps.  elems[i] is the language element with       *)
(* identity i, qheap[q] is the Qualifier object with identity q.  A        *)
(* reference is the index of the object, 0 stands for Python's None.       *)
(* Text is a sequence of tokens; the token "\n" is the line break and no   *)
(* other token holds one, a "\t" token is one unit of indentation.  The    *)
(* empty string is the empty sequence.                                     *)
(*                                                                         *)
(* The renderers are operators that take a tree and give the text or the   *)
(* error of the whole call.  The brace blocks are modelled a second time   *)
(* step by step, on a heap of Indentation objects and a heap of writers,   *)
(* for the renders that run side by side in threads.                       *)
(***************************************************************************)
EXTENDS Integers, Sequences, FiniteSets, TLC

VARIABLES
    elems,   \* heap of CppLanguageElement objects
    qheap,   \* heap of Qualifier objects
    qtop,    \* the Qualifier most recently constructed by the caller (0: none)
    decl,    \* the ClassDeclaration / StructDeclaration the caller keeps (0: none)
    out,     \* what the last call returned or raised
    indents, \* heap of Indentation objects: the level of each
    writers, \* heap of StringIO objects: the text of each
    threads  \* the renders in progress, one per thread

vars == <<elems, qheap, qtop, decl, out, indents, writers, threads>>

----------------------------------------------------------------------------
(* Bounds of the model *)

MaxChain == 3

MaxNew == 2

MaxObjs == 3

MaxAdds == 3

MaxElems == 4

MaxMembers == 3

MaxSteps == 3

----------------------------------------------------------------------------
(* Values *)

NoneRef == 0

NoneStr == "<None>"

\* Python truthiness of an Optional[str]
Truthy(s) == s # NoneStr /\ s # ""

\* the text of a string: the empty string holds no token
Tok(s) == IF s = "" THEN <<>> ELSE <<s>>

RECURSIVE Concat(_)
Concat(ss) == IF ss = <<>> THEN <<>> ELSE Head(ss) \o Concat(Tail(ss))

\* sep.join(texts)
RECURSIVE Join(_, _)
Join(sep, texts) ==
    IF texts = <<>> THEN <<>>
    ELSE IF Len(texts) = 1 THEN texts[1]
    ELSE texts[1] \o sep \o Join(sep, Tail(texts))

NoOut == [op |-> "none", arg |-> 0, err |-> "None", text |-> <<>>, log |-> <<>>]

\* no render in progress.  The first Indentation and the first StringIO are the
\* objects the class BraceStrategy holds as the defaults of its fields
NoRender ==
    /\ indents = <<0>>
    /\ writers = <<<<>>>>
    /\ threads = <<>>

Returned(op, arg, text) ==
    [op |-> op, arg |-> arg, err |-> "None", text |-> text, log |-> <<>>]

Raised(op, arg, err) ==
    [op |-> op, arg |-> arg, err |-> err, text |-> <<>>, log |-> <<>>]

----------------------------------------------------------------------------
(* Qualifier and its subclasses *)

QualifierKinds ==
    {"Static", "Inline", "Volatile", "Virtual", "Const", "Constexpr", "Extern", "Pure"}

\* the keyword each subclass passes to Qualifier.__init__
Keyword(kind) ==
    CASE kind = "Static" -> "static"
      [] kind = "Inline" -> "inline"
      [] kind = "Volatile" -> "volatile"
      [] kind = "Virtual" -> "virtual"
      [] kind = "Const" -> "const"
      [] kind = "Constexpr" -> "constexpr"
      [] kind = "Extern" -> "extern"
      [] kind = "Pure" -> "= 0"

\* kind(decorator): a new Qualifier object
QualifierNode(kind, decorator) ==
    [kind |-> kind, keyword |-> Keyword(kind), decorator |-> decorator]

\* Qualifier.__call__: the keyword, and the keyword of the decorator when there is one
QualifierCall(h, q) ==
    IF h[q].decorator # NoneRef
    THEN <<h[q].keyword, " ", h[h[q].decorator].keyword>>
    ELSE <<h[q].keyword>>

\* the kinds of the chain that starts at q, outermost first
RECURSIVE ChainKinds(_, _)
ChainKinds(h, q) ==
    IF q = NoneRef THEN <<>> ELSE <<h[q].kind>> \o ChainKinds(h, h[q].decorator)

\* the keywords of a sequence of kinds
Keywords(kinds) == [i \in 1..Len(kinds) |-> <<Keyword(kinds[i])>>]

\* IsKind looking at the outermost link only
IsKindOutermost(h, q, kind) == q # NoneRef /\ h[q].kind = kind

RECURSIVE IsKind(_, _, _)
IsKind(h, q, kind) ==
    IF q = NoneRef THEN FALSE
    ELSE IF h[q].kind = kind THEN TRUE
    ELSE IF h[q].decorator # NoneRef THEN IsKind(h, h[q].decorator, kind)
    ELSE FALSE

is_const(h, q) == IsKind(h, q, "Const")

is_constexpr(h, q) == IsKind(h, q, "Constexpr")

is_static(h, q) == IsKind(h, q, "Static")

----------------------------------------------------------------------------
(* The language elements *)

ElementKinds ==
    {"Variable", "Array", "Function", "Enum", "Class", "Struct", "Namespace"}

\* isinstance(e, Variable): Array derives from Variable
IsVariable(e) == e.kind \in {"Variable", "Array"}

IsArray(e) == e.kind = "Array"

IsFunction(e) == e.kind = "Function"

IsEnum(e) == e.kind = "Enum"

\* isinstance(e, Class): Struct derives from Class
IsClass(e) == e.kind \in {"Class", "Struct"}

IsStruct(e) == e.kind = "Struct"

\* An Optional[...] value: <<>> is None, <<x>> is the value x
None == <<>>

Some(x) == <<x>>

\* Python truthiness of an Optional[List]
TruthyList(opt) == opt # None /\ opt[1] # <<>>

\* the list held by an Optional[List], empty for None
ListOf(opt) == IF opt = None THEN <<>> ELSE opt[1]

\* The dataclass fields with their defaults; a field a kind does not declare
\* keeps its default in every object of that kind.
DefaultElement(kind) ==
    [ kind              |-> kind,
      name              |-> "",
      docs              |-> NoneStr,
      ref_to_parent     |-> NoneRef,
      type              |-> "",
      qualifier         |-> NoneRef,
      init_value        |-> NoneStr,
      items             |-> None,
      size_ref          |-> NoneRef,
      return_type       |-> NoneStr,
      postfix_qualifier |-> NoneRef,
      implementation_handle |-> NoneStr,
      args              |-> None,
      context           |-> NoneStr,
      prefix            |-> "",
      elements          |-> None,
      parents           |-> None ]

\* CppLanguageElement.__post_init__
BasePostInit(e) == IF e.name = "" THEN "ValueError" ELSE "None"

\* Variable.__post_init__ and Array.__post_init__: neither calls the base method
VariablePostInit(e) == IF e.type = "" THEN "ValueError" ELSE "None"

\* Function.__post_init__
FunctionPostInit(e) ==
    IF BasePostInit(e) # "None" THEN BasePostInit(e)
    ELSE IF e.args = None THEN "None"
    ELSE IF e.args[1] = <<>> THEN "IndexError"
    ELSE IF Len(e.args[1][1]) < 2 THEN "ValueError"
    ELSE "None"

\* the __post_init__ the dataclass __init__ of the element's class runs
PostInit(e) ==
    IF IsVariable(e) THEN VariablePostInit(e)
    ELSE IF IsFunction(e) THEN FunctionPostInit(e)
    ELSE BasePostInit(e)

\* the Qualifier objects of kinds(...) nested outermost first, appended to heap h
RECURSIVE AllocChain(_, _)
AllocChain(h, kinds) ==
    IF kinds = <<>> THEN [heap |-> h, ref |-> NoneRef]
    ELSE LET inner == AllocChain(h, Tail(kinds))
         IN  [heap |-> Append(inner.heap, QualifierNode(Head(kinds), inner.ref)),
              ref  |-> Len(inner.heap) + 1]

----------------------------------------------------------------------------
(* SpecNew: the caller constructs language elements *)

NewNames == {"", "a"}

NewTypes == {"", "int"}

NewInits == {NoneStr, "", "1"}

NewQualifiers == {<<>>, <<"Const">>}

NewArgs == {None, Some(<<>>), Some(<< <<"int n", NoneStr>> >>)}

NewPrefixes == {"", "p_"}

\* the constructor calls the model makes: every field a kind declares is drawn,
\* the others keep their defaults
NewCalls ==
    { c \in [kind : ElementKinds, name : NewNames, type : NewTypes,
             qualifier : NewQualifiers, init_value : NewInits, args : NewArgs,
             prefix : NewPrefixes] :
        /\ c.kind \notin {"Variable", "Array"} => c.type = "" /\ c.init_value = NoneStr
        /\ c.kind \notin {"Variable", "Array", "Function"} => c.qualifier = <<>>
        /\ c.kind # "Function" => c.args = None
        /\ c.kind # "Enum" => c.prefix = "" }

InitNew ==
    /\ elems = <<>>
    /\ qheap = <<>>
    /\ qtop = NoneRef
    /\ decl = NoneRef
    /\ out = NoOut
    /\ NoRender

\* kind(name=..., type=..., qualifier=..., init_value=..., args=..., prefix=...)
Construct ==
    /\ Len(elems) < MaxNew
    /\ \E c \in NewCalls :
          LET q == AllocChain(qheap, c.qualifier)
              e == [DefaultElement(c.kind) EXCEPT
                      !.name = c.name, !.type = c.type, !.qualifier = q.ref,
                      !.init_value = c.init_value, !.args = c.args,
                      !.prefix = c.prefix]
          IN  IF PostInit(e) = "None"
              THEN /\ elems' = Append(elems, e)
                   /\ qheap' = q.heap
                   /\ out' = [op |-> "new", arg |-> e, err |-> "None",
                              text |-> <<>>, log |-> <<>>]
              ELSE \* nothing refers to the Qualifier objects of a failed call
                   /\ elems' = elems
                   /\ qheap' = qheap
                   /\ out' = [op |-> "new", arg |-> e, err |-> PostInit(e),
                              text |-> <<>>, log |-> <<>>]
    /\ UNCHANGED <<qtop, decl, indents, writers, threads>>


----------------------------------------------------------------------------
(* Class.add, Struct.add and the walks over the element graph *)

Visibilities == {"public", "private", "protected"}

\* the default of the visibility parameter of Class.add and of Struct.add
DefaultVisibility(e) == IF IsStruct(e) THEN "public" ELSE "private"

\* Class.add(element, visibility) on the heap E: the list is created lazily, the
\* child's ref_to_parent is set, the pair is appended
Add(E, c, e, visibility) ==
    LET E1 == [E EXCEPT ![c].elements = IF TruthyList(@) THEN @ ELSE Some(<<>>)]
        E2 == [E1 EXCEPT ![e].ref_to_parent = c]
    IN  [E2 EXCEPT ![c].elements = Some(Append(@[1], <<e, visibility>>))]

\* the depth at which the interpreter gives up a recursion (sys.getrecursionlimit()
\* is 1000; the model's graphs hold a handful of objects)
RecursionLimit == 8

\* build_scope(cpp_element): the names of the ancestors, outermost first
RECURSIVE build_scope(_, _, _)
build_scope(E, e, fuel) ==
    IF fuel = 0 THEN [err |-> "RecursionError", text |-> <<>>]
    ELSE IF E[e].ref_to_parent = NoneRef THEN [err |-> "None", text |-> <<>>]
    ELSE LET scope == <<E[E[e].ref_to_parent].name \o "::">>
             parent_scope == build_scope(E, E[e].ref_to_parent, fuel - 1)
         IN  IF parent_scope.err # "None" THEN parent_scope
             ELSE [err |-> "None", text |-> parent_scope.text \o scope]

is_integral(type) == type \in {"int", "long", "size_t"}

\* is_translation_unit_element(cpp_element)
is_translation_unit_element(E, h, e) ==
    IF IsVariable(E[e]) /\ is_static(h, E[e].qualifier)
    THEN IF is_constexpr(h, E[e].qualifier) THEN FALSE
         ELSE IF is_const(h, E[e].qualifier) /\ is_integral(E[e].type) THEN FALSE
         ELSE TRUE
    ELSE IsFunction(E[e])

\* translation_unit_elements(cls): [err, units]; iterating over elements that is
\* None raises TypeError
RECURSIVE translation_unit_elements(_, _, _, _)
RECURSIVE NestedUnits(_, _, _, _, _)
NestedUnits(E, h, members, i, fuel) ==
    IF i > Len(members) THEN [err |-> "None", units |-> <<>>]
    ELSE IF ~IsClass(E[members[i][1]]) THEN NestedUnits(E, h, members, i + 1, fuel)
    ELSE LET first == translation_unit_elements(E, h, members[i][1], fuel - 1)
         IN  IF first.err # "None" THEN first
             ELSE LET rest == NestedUnits(E, h, members, i + 1, fuel)
                  IN  IF rest.err # "None" THEN rest
                      ELSE [err |-> "None", units |-> first.units \o rest.units]
translation_unit_elements(E, h, cls, fuel) ==
    IF fuel = 0 THEN [err |-> "RecursionError", units |-> <<>>]
    ELSE IF E[cls].elements = None THEN [err |-> "TypeError", units |-> <<>>]
    ELSE LET members == E[cls].elements[1]
             nested == NestedUnits(E, h, members, 1, fuel)
             own == SelectSeq([i \in 1..Len(members) |-> members[i][1]],
                              LAMBDA e : is_translation_unit_element(E, h, e))
         IN  IF nested.err # "None" THEN nested
             ELSE [err |-> "None", units |-> nested.units \o own]

----------------------------------------------------------------------------
(* Results of the renderers.  A renderer returns text or raises; log lists  *)
(* what the class composer wrote (one entry per visibility label and per    *)
(* member renderer it ran), heap is the Qualifier heap after the call.      *)

Ok(text, h) == [err |-> "None", text |-> text, log |-> <<>>, heap |-> h]

Fail(err, h) == [err |-> err, text |-> <<>>, log |-> <<>>, heap |-> h]

----------------------------------------------------------------------------
(* Indentation and the brace strategies *)

Whitespace == "\t"

RECURSIVE Repeat(_, _)
Repeat(tok, n) == IF n < 1 THEN <<>> ELSE <<tok>> \o Repeat(tok, n - 1)

\* Indentation.indent(text)
Indent(level, text) == IF level < 1 THEN text ELSE Repeat(Whitespace, level) \o text

\* text[-1] == '\n' for a non-empty text
EndsWithNewline(text) == text[Len(text)] = "\n"

\* text.split('\n'): the lines of a text, one more than it has line breaks
RECURSIVE SplitLines(_)
SplitLines(text) ==
    IF \A i \in 1..Len(text) : text[i] # "\n" THEN <<text>>
    ELSE LET k == CHOOSE i \in 1..Len(text) :
                     text[i] = "\n" /\ \A j \in 1..(i - 1) : text[j] # "\n"
         IN  <<SubSeq(text, 1, k - 1)>> \o SplitLines(SubSeq(text, k + 1, Len(text)))

BraceStyles == {"KnRStyle", "AllmanStyle", "SingleLineStyle"}

\* CodeStyleFactory.__call__: a strategy writing to writer w at the level of the
\* Indentation it shares with its caller
NewBraceStrategy(style, w, level, postfix) ==
    [style |-> style, w |-> w, level |-> level, postfix |-> postfix,
     is_ended_with_newline |-> FALSE]

\* AllmanStyle.__enter__, KnRStyle.__enter__, SingleLineStyle.__enter__
Enter(bs) ==
    CASE bs.style = "AllmanStyle" ->
            [bs EXCEPT !.w = @ \o <<"\n">> \o Indent(bs.level, <<"{">>) \o <<"\n">>,
                       !.level = @ + 1,
                       !.is_ended_with_newline = TRUE]
      [] bs.style = "KnRStyle" ->
            [bs EXCEPT !.level = @ + 1,
                       !.w = @ \o <<" {", "\n">>,
                       !.is_ended_with_newline = TRUE]
      [] bs.style = "SingleLineStyle" ->
            [bs EXCEPT !.w = @ \o <<"{">>]

\* __exit__ writing the closing brace without lowering the level
ExitKeepsDepth(bs) ==
    IF bs.style = "SingleLineStyle"
    THEN [bs EXCEPT !.w = @ \o <<"}">> \o Tok(bs.postfix)]
    ELSE [bs EXCEPT !.w = @ \o (IF bs.is_ended_with_newline THEN <<>> ELSE <<"\n">>)
                              \o Indent(bs.level, <<"}">> \o Tok(bs.postfix))]

\* BraceStrategy.__exit__ and SingleLineStyle.__exit__
Exit(bs) ==
    IF bs.style = "SingleLineStyle"
    THEN [bs EXCEPT !.w = @ \o <<"}">> \o Tok(bs.postfix)]
    ELSE LET level == bs.level - 1
             forced == IF bs.is_ended_with_newline THEN <<>> ELSE <<"\n">>
         IN  [bs EXCEPT !.level = level,
                        !.w = @ \o forced \o Indent(level, <<"}">> \o Tok(bs.postfix))]

\* BraceStrategy.write_line(line, enforce_newline=True)
write_line(bs, line) ==
    IF line = <<>> THEN bs
    ELSE IF EndsWithNewline(line)
         THEN [bs EXCEPT !.w = @ \o Indent(bs.level, line),
                         !.is_ended_with_newline = TRUE]
         ELSE [bs EXCEPT !.w = @ \o Indent(bs.level, line) \o <<"\n">>,
                         !.is_ended_with_newline = TRUE]

\* BraceStrategy.write_lines(lines); lines may be None (<<>>)
write_lines(bs, lines) ==
    IF lines = <<>> THEN bs
    ELSE LET split == SplitLines(lines)
             indented == [i \in 1..Len(split) |-> Indent(bs.level, split[i]) \o <<"\n">>]
         IN  [bs EXCEPT !.w = @ \o Concat(indented), !.is_ended_with_newline = TRUE]

\* write that does not note how the data ends
write_keeps_flag(bs, data) ==
    IF data = <<>> THEN bs ELSE [bs EXCEPT !.w = @ \o data]

\* BraceStrategy.write(data)
write(bs, data) ==
    IF data = <<>> THEN bs
    ELSE [bs EXCEPT !.w = @ \o data, !.is_ended_with_newline = EndsWithNewline(data)]

----------------------------------------------------------------------------
(* Qualifier chains during rendering *)

\* deepcopy(qualifier): fresh objects for every link of the chain
RECURSIVE DeepCopy(_, _)
DeepCopy(h, q) ==
    IF q = NoneRef THEN [heap |-> h, ref |-> NoneRef]
    ELSE LET inner == DeepCopy(h, h[q].decorator)
         IN  [heap |-> Append(inner.heap, [h[q] EXCEPT !.decorator = inner.ref]),
              ref  |-> Len(inner.heap) + 1]

\* reduce_qualifiers dropping an excluded outermost link only
reduce_qualifiers_outermost(h, q, exclude) ==
    IF q = NoneRef THEN [heap |-> h, ref |-> q]
    ELSE IF h[q].kind \in exclude THEN [heap |-> h, ref |-> h[q].decorator]
    ELSE [heap |-> h, ref |-> q]

\* reduce_qualifiers(qualifier, exclude): relinks the chain in place
RECURSIVE reduce_qualifiers(_, _, _)
reduce_qualifiers(h, q, exclude) ==
    IF q = NoneRef THEN [heap |-> h, ref |-> q]
    ELSE LET h1 == IF h[q].decorator # NoneRef
                   THEN LET r == reduce_qualifiers(h, h[q].decorator, exclude)
                        IN  [r.heap EXCEPT ![q].decorator = r.ref]
                   ELSE h
         IN  IF h1[q].kind \in exclude
             THEN [heap |-> h1, ref |-> h1[q].decorator]
             ELSE [heap |-> h1, ref |-> q]

\* variable_prototype without the copy: reduces the element's own chain
ReducedQualifierInPlace(h, q, exclude) ==
    IF exclude # {} THEN reduce_qualifiers(h, q, exclude) ELSE [heap |-> h, ref |-> q]

\* the qualifier variable_prototype renders: the element's chain, or a reduced
\* deep copy of it when kinds are excluded
ReducedQualifier(h, q, exclude) ==
    IF exclude # {}
    THEN LET qualifier_copy == DeepCopy(h, q)
         IN  reduce_qualifiers(qualifier_copy.heap, qualifier_copy.ref, exclude)
    ELSE [heap |-> h, ref |-> q]

\* qualifier() + ' ' if qualifier else ''
QualifierPrefix(h, q) == IF q # NoneRef THEN QualifierCall(h, q) \o <<" ">> ELSE <<>>

\* variable_prototype(cpp_element, use_ref_to_parent, exclude)
variable_prototype(E, h, e, use_ref_to_parent, exclude) ==
    LET reduced == ReducedQualifier(h, E[e].qualifier, exclude)
        qualifier == QualifierPrefix(reduced.heap, reduced.ref)
        scope == IF use_ref_to_parent /\ E[e].ref_to_parent # NoneRef
                 THEN build_scope(E, e, RecursionLimit)
                 ELSE [err |-> "None", text |-> <<>>]
    IN  IF scope.err # "None" THEN Fail(scope.err, reduced.heap)
        ELSE Ok(qualifier \o <<E[e].type, " ">> \o scope.text \o Tok(E[e].name),
                reduced.heap)

----------------------------------------------------------------------------
(* Variables *)

\* the type names the model uses, and which of them hold 'string' or 'char',
\* 'float' or 'double'
TypeNames == {"int", "long", "size_t", "std::string", "char *", "float", "double", "Object"}

HoldsStringOrChar(type) == type \in {"std::string", "char *"}

HoldsFloatOrDouble(type) == type \in {"float", "double"}

\* default_value with a fallback to '0' in place of the error
default_value_fallback(E, e) ==
    IF Truthy(E[e].init_value) THEN [err |-> "None", text |-> <<E[e].init_value>>]
    ELSE IF HoldsStringOrChar(E[e].type) THEN [err |-> "None", text |-> <<"\"\"">>]
    ELSE IF HoldsFloatOrDouble(E[e].type) THEN [err |-> "None", text |-> <<"0.0">>]
    ELSE [err |-> "None", text |-> <<"0">>]

\* DefaultValueFactory.default_value(element): the text returned, or the error
\* raised with its message as text
default_value(E, e) ==
    IF Truthy(E[e].init_value) THEN [err |-> "None", text |-> <<E[e].init_value>>]
    ELSE IF is_integral(E[e].type) THEN [err |-> "None", text |-> <<"0">>]
    ELSE IF HoldsStringOrChar(E[e].type) THEN [err |-> "None", text |-> <<"\"\"">>]
    ELSE IF HoldsFloatOrDouble(E[e].type) THEN [err |-> "None", text |-> <<"0.0">>]
    ELSE [err |-> "ValueError",
          text |-> <<"Cannot determine default init value for '", E[e].name,
                     "' of type: ", E[e].type>>]

\* VariableDeclaration.is_assignable: "True", "False" or the error raised
is_assignable(E, h, e) ==
    IF is_constexpr(h, E[e].qualifier)
    THEN IF Truthy(E[e].init_value) THEN "True" ELSE "ValueError"
    ELSE IF E[e].ref_to_parent # NoneRef /\ IsClass(E[E[e].ref_to_parent])
            /\ is_static(h, E[e].qualifier)
         THEN IF is_integral(E[e].type) /\ is_const(h, E[e].qualifier)
              THEN "True" ELSE "False"
         ELSE IF Truthy(E[e].init_value) /\ is_const(h, E[e].qualifier)
              THEN "True" ELSE "False"

\* VariableDeclaration.code
VariableDeclarationCode(E, h, e) ==
    LET assignable == is_assignable(E, h, e)
        prototype == variable_prototype(E, h, e, FALSE, {})
        value == default_value(E, e)
    IN  IF assignable = "ValueError" THEN Fail("ValueError", h)
        ELSE IF assignable = "True"
             THEN IF prototype.err # "None" THEN prototype
                  ELSE IF value.err # "None" THEN Fail(value.err, prototype.heap)
                  ELSE Ok(prototype.text \o <<" = ">> \o value.text \o <<";">>,
                          prototype.heap)
             ELSE IF prototype.err # "None" THEN prototype
                  ELSE Ok(prototype.text \o <<";">>, prototype.heap)

\* VariableDefinition.code
VariableDefinitionCode(E, h, e) ==
    LET prototype == variable_prototype(E, h, e, TRUE, {"Static"})
        value == default_value(E, e)
    IN  IF prototype.err # "None" THEN prototype
        ELSE IF value.err # "None" THEN Fail(value.err, prototype.heap)
        ELSE Ok(prototype.text \o <<" = ">> \o value.text \o <<";">>, prototype.heap)

\* VariableConstructorDefinition.code
VariableConstructorDefinitionCode(E, e) ==
    Tok(E[e].name) \o <<"(">>
        \o (IF Truthy(E[e].init_value) THEN <<E[e].init_value>> ELSE <<>>) \o <<")">>

----------------------------------------------------------------------------
(* Arrays *)

CppStandards == {"CPP_03", "CPP_11"}

\* the size taken from the items before the size_ref
ArraySizeItemsFirst(E, e) ==
    IF TruthyList(E[e].items) THEN <<ToString(Len(E[e].items[1]))>>
    ELSE IF E[e].size_ref # NoneRef THEN Tok(E[E[e].size_ref].name)
    ELSE <<"0">>

\* the size an array declaration shows
ArraySize(E, e) ==
    IF E[e].size_ref # NoneRef THEN Tok(E[E[e].size_ref].name)
    ELSE IF TruthyList(E[e].items) THEN <<ToString(Len(E[e].items[1]))>>
    ELSE <<"0">>

\* ArrayDeclaration.code
ArrayDeclarationCode(E, h, e) ==
    Ok(QualifierPrefix(h, E[e].qualifier) \o <<E[e].type, " ">> \o Tok(E[e].name)
           \o <<"[">> \o ArraySize(E, e) \o <<"]", ";">>, h)

\* StdArrayDeclaration.code
StdArrayDeclarationCode(E, h, e) ==
    Ok(QualifierPrefix(h, E[e].qualifier) \o <<"std::array<", E[e].type, ", ">>
           \o ArraySize(E, e) \o <<"> ">> \o Tok(E[e].name) \o <<";">>, h)

\* ArrayDefinition.array_values
array_values(E, e) == [i \in 1..Len(ListOf(E[e].items)) |-> <<ListOf(E[e].items)[i]>>]

\* ArrayDefinition.code taking the items before the init_value
ArrayDefinitionItemsFirst(E, h, e) ==
    LET prototype == variable_prototype(E, h, e, TRUE, {"Static"})
        init_value == IF TruthyList(E[e].items)
                      THEN Join(<<",", "\n">>, array_values(E, e))
                      ELSE Tok(IF E[e].init_value = NoneStr THEN "" ELSE E[e].init_value)
        os == Enter(NewBraceStrategy("KnRStyle",
                        prototype.text \o <<"[", "]">> \o <<" =">>, 0, ";"))
    IN  IF prototype.err # "None" THEN prototype
        ELSE Ok(Exit(write_lines(os, init_value)).w, prototype.heap)

\* ArrayDefinition.code with the default KnRStyle and a fresh Indentation
ArrayDefinitionCode(E, h, e) ==
    LET prototype == variable_prototype(E, h, e, TRUE, {"Static"})
        init_value == IF Truthy(E[e].init_value) THEN <<E[e].init_value>>
                      ELSE Join(<<",", "\n">>, array_values(E, e))
        os == Enter(NewBraceStrategy("KnRStyle",
                        prototype.text \o <<"[", "]">> \o <<" =">>, 0, ";"))
    IN  IF prototype.err # "None" THEN prototype
        ELSE Ok(Exit(write_lines(os, init_value)).w, prototype.heap)

\* ArrayConstructorDefinition.code
ArrayConstructorDefinitionCode(E, e, cpp_standard) ==
    IF cpp_standard = "CPP_11"
    THEN LET init_value == IF Truthy(E[e].init_value) THEN <<E[e].init_value>>
                           ELSE Join(<<",">>, array_values(E, e))
             os == Enter(NewBraceStrategy("SingleLineStyle", Tok(E[e].name), 0, ""))
         IN  Exit(write(os, init_value)).w
    ELSE Tok(E[e].name) \o <<"()">>

----------------------------------------------------------------------------
(* Functions and constructors *)

\* the callables the model passes as implementation_handle: "impl" returns one
\* statement that shows the arguments it was called with, "raises" raises
ImplementationHandles == {"impl", "raises"}

\* the context objects the model passes: None, the caller itself and the empty
\* list []
Contexts == {NoneStr, "self", "[]"}

\* Python truthiness of a context object
TruthyContext(context) == context \notin {NoneStr, "[]"}

\* implementation_handle(*call_args)
CallImplementation(handle, call_args) ==
    IF handle = "raises" THEN [err |-> "RuntimeError", text |-> <<>>]
    ELSE [err |-> "None", text |-> <<handle, "(">> \o call_args \o <<")", ";">>]

\* FunctionDefinition.function_definition: the body, None (<<>>) without a handle
function_definition(E, e) ==
    IF E[e].implementation_handle = NoneStr THEN [err |-> "None", text |-> <<>>]
    ELSE IF TruthyContext(E[e].context)
         THEN CallImplementation(E[e].implementation_handle, <<E[e].context>>)
         ELSE CallImplementation(E[e].implementation_handle, <<>>)

\* FunctionDeclaration.function_return_type and FunctionDefinition.function_return_type
function_return_type(E, e) ==
    IF Truthy(E[e].return_type) THEN E[e].return_type ELSE "void"

\* the arguments of a declaration: each with its default value when it has one
DeclarationArgs(E, e) ==
    LET args == ListOf(E[e].args)
    IN  Join(<<", ">>,
             [i \in 1..Len(args) |->
                 <<args[i][1]>> \o (IF Truthy(args[i][2])
                                    THEN <<" = ", args[i][2]>> ELSE <<>>)])

\* the arguments of a definition: without default values
DefinitionArgs(E, e) ==
    LET args == ListOf(E[e].args)
    IN  Join(<<", ">>, [i \in 1..Len(args) |-> <<args[i][1]>>])

\* ' ' + postfix_qualifier() if postfix_qualifier else ''
PostfixQualifier(E, h, e) ==
    IF E[e].postfix_qualifier # NoneRef
    THEN <<" ">> \o QualifierCall(h, E[e].postfix_qualifier) ELSE <<>>

\* FunctionDeclaration.code; ConstructorDeclaration.code when constructor
FunctionDeclarationCode(E, h, e, constructor) ==
    LET return_type == IF constructor THEN <<>> ELSE <<function_return_type(E, e), " ">>
    IN  Ok(QualifierPrefix(h, E[e].qualifier) \o return_type \o Tok(E[e].name)
               \o <<"(">> \o DeclarationArgs(E, e) \o <<")">>
               \o PostfixQualifier(E, h, e) \o <<";">>, h)

\* FunctionDefinition.function_prototype; the constructor has no return type
function_prototype(E, h, e, constructor) ==
    LET scope == build_scope(E, e, RecursionLimit)
        return_type == IF constructor THEN <<>> ELSE <<function_return_type(E, e), " ">>
    IN  IF scope.err # "None" THEN scope
        ELSE [err |-> "None",
              text |-> return_type \o scope.text \o Tok(E[e].name)
                          \o <<"(">> \o DefinitionArgs(E, e) \o <<")">>
                          \o PostfixQualifier(E, h, e)]

\* is_initializable without the test for static
is_initializable_static(E, h, e) ==
    IF ~IsVariable(E[e]) THEN FALSE
    ELSE IF is_constexpr(h, E[e].qualifier) THEN FALSE
    ELSE TRUE

\* ConstructorDefinition.is_initializable
is_initializable(E, h, e) ==
    IF ~IsVariable(E[e]) THEN FALSE
    ELSE IF is_static(h, E[e].qualifier) THEN FALSE
    ELSE IF is_constexpr(h, E[e].qualifier) THEN FALSE
    ELSE TRUE

\* ConstructorInitializerFactory.build(e).code()
InitializerCode(E, e, cpp_standard) ==
    IF IsArray(E[e]) THEN ArrayConstructorDefinitionCode(E, e, cpp_standard)
    ELSE VariableConstructorDefinitionCode(E, e)

\* ConstructorDefinition.initializer_list: [err, items]; None is the empty list
initializer_list(E, h, e, cpp_standard) ==
    IF E[e].ref_to_parent = NoneRef THEN [err |-> "None", items |-> <<>>]
    ELSE IF E[E[e].ref_to_parent].elements = None THEN [err |-> "TypeError", items |-> <<>>]
    ELSE LET members == E[E[e].ref_to_parent].elements[1]
             initializable ==
                 SelectSeq([i \in 1..Len(members) |-> members[i][1]],
                           LAMBDA m : is_initializable(E, h, m))
         IN  [err |-> "None",
              items |-> [i \in 1..Len(initializable) |->
                            InitializerCode(E, initializable[i], cpp_standard)]]

\* the scoped block of FunctionDefinition.code: the body written through a
\* KnRStyle strategy over a fresh Indentation; __exit__ runs also when the
\* implementation raises
FunctionBlock(E, h, e, head) ==
    LET os == Enter(NewBraceStrategy("KnRStyle", head, 0, ""))
        body == function_definition(E, e)
    IN  IF body.err # "None" THEN Fail(body.err, h)
        ELSE Ok(Exit(write_lines(os, body.text)).w, h)

\* FunctionDefinition.code
FunctionDefinitionCode(E, h, e) ==
    LET prototype == function_prototype(E, h, e, FALSE)
    IN  IF prototype.err # "None" THEN Fail(prototype.err, h)
        ELSE FunctionBlock(E, h, e, prototype.text)

\* ConstructorDefinition.code
ConstructorDefinitionCode(E, h, e, cpp_standard) ==
    LET prototype == function_prototype(E, h, e, TRUE)
        initializers == initializer_list(E, h, e, cpp_standard)
        list == IF initializers.items # <<>>
                THEN <<" :", "\n">> \o Join(<<",", "\n">>, initializers.items)
                ELSE <<>>
    IN  IF prototype.err # "None" THEN Fail(prototype.err, h)
        ELSE IF initializers.err # "None" THEN Fail(initializers.err, h)
        ELSE FunctionBlock(E, h, e, prototype.text \o list)

----------------------------------------------------------------------------
(* Enums *)

\* enum_definition testing the truthiness of the value
enum_definition_truthy(E, e) ==
    LET items == ListOf(E[e].items)
    IN  Join(<<",", "\n">>,
             [i \in 1..Len(items) |->
                 Tok(E[e].prefix) \o <<items[i][1]>>
                     \o (IF Truthy(items[i][2]) THEN <<" = ", items[i][2]>> ELSE <<>>)])

\* EnumDeclaration.enum_definition
enum_definition(E, e) ==
    LET items == ListOf(E[e].items)
    IN  Join(<<",", "\n">>,
             [i \in 1..Len(items) |->
                 Tok(E[e].prefix) \o <<items[i][1]>>
                     \o (IF items[i][2] # NoneStr THEN <<" = ", items[i][2]>> ELSE <<>>)])

\* EnumDeclaration.code with the default KnRStyle at the caller's indentation
EnumDeclarationCode(E, h, e, level) ==
    LET os == Enter(NewBraceStrategy("KnRStyle", <<"enum ">> \o Tok(E[e].name), level, ";"))
    IN  Ok(Exit(write_lines(os, enum_definition(E, e))).w, h)

----------------------------------------------------------------------------
(* Classes and structs: the element factory, the declaration composer and    *)
(* the definition composer                                                   *)

\* an entry of the composer's log: the renderer it ran for member elem of class
\* owner and the text it got, or a visibility label it wrote (elem = 0)
LogEntry(owner, elem, renderer, text) ==
    [owner |-> owner, elem |-> elem, renderer |-> renderer, text |-> text]

\* ClassCodeFactory.build_declaration: the renderer class chosen for the element
build_declaration(E, name, cpp_standard, e) ==
    IF IsVariable(E[e])
    THEN IF IsArray(E[e])
         THEN IF cpp_standard = "CPP_03" THEN "ArrayDeclaration" ELSE "StdArrayDeclaration"
         ELSE "VariableDeclaration"
    ELSE IF IsFunction(E[e])
         THEN IF E[e].name = name THEN "ConstructorDeclaration" ELSE "FunctionDeclaration"
    ELSE IF IsClass(E[e])
         THEN IF IsStruct(E[e]) THEN "StructDeclaration" ELSE "ClassDeclaration"
    ELSE IF IsEnum(E[e]) THEN "EnumDeclaration"
    ELSE "ValueError"

\* build_definition with a renderer for an Enum
build_definition_enum(E, name, e) ==
    IF IsVariable(E[e])
    THEN IF IsArray(E[e]) THEN "ArrayDefinition" ELSE "VariableDefinition"
    ELSE IF IsFunction(E[e])
         THEN IF E[e].name = name THEN "ConstructorDefinition" ELSE "FunctionDefinition"
    ELSE IF IsClass(E[e])
         THEN IF IsStruct(E[e]) THEN "StructDefinition" ELSE "ClassDefinition"
    ELSE IF IsEnum(E[e]) THEN "EnumDefinition"
    ELSE "ValueError"

\* ClassCodeFactory.build_definition: the renderer class chosen for the element
build_definition(E, name, e) ==
    IF IsVariable(E[e])
    THEN IF IsArray(E[e]) THEN "ArrayDefinition" ELSE "VariableDefinition"
    ELSE IF IsFunction(E[e])
         THEN IF E[e].name = name THEN "ConstructorDefinition" ELSE "FunctionDefinition"
    ELSE IF IsClass(E[e])
         THEN IF IsStruct(E[e]) THEN "StructDefinition" ELSE "ClassDefinition"
    ELSE "ValueError"

\* the visibility field a fresh ClassDeclaration / StructDeclaration starts with
RendererVisibility(renderer) == IF renderer = "StructDeclaration" THEN "public" ELSE "private"

\* ClassDeclaration.class_prototype / StructDeclaration.class_prototype
class_prototype(E, c, renderer) ==
    (IF renderer = "StructDeclaration" THEN <<"struct ">> ELSE <<"class ">>) \o Tok(E[c].name)

\* ClassDeclaration.class_inheritance
class_inheritance(E, c) ==
    LET parents == ListOf(E[c].parents)
    IN  IF parents = <<>> THEN <<>>
        ELSE <<" : ">> \o Join(<<", ">>,
                 [i \in 1..Len(parents) |-> <<parents[i][2], " ", parents[i][1]>>])

\* ClassDeclaration.code(indentation) of renderer class `renderer` (ClassDeclaration
\* or StructDeclaration) with field visibility, writing class c of heap E at the
\* level of the shared Indentation.  Returns [err, text, log, heap, visibility]:
\* visibility is the renderer's field after the call.
RECURSIVE ClassDeclarationCode(_, _, _, _, _, _, _, _, _)
RECURSIVE Declarations(_, _, _, _, _, _, _, _, _)
RECURSIVE DeclaredMember(_, _, _, _, _, _, _, _, _, _, _, _)

\* the code() of the renderer the factory built for a member, at the composer's level
MemberDeclaration(E, h, e, chosen, cpp_standard, level, fuel) ==
    CASE chosen = "VariableDeclaration" -> VariableDeclarationCode(E, h, e)
      [] chosen = "ArrayDeclaration" -> ArrayDeclarationCode(E, h, e)
      [] chosen = "StdArrayDeclaration" -> StdArrayDeclarationCode(E, h, e)
      [] chosen = "ConstructorDeclaration" -> FunctionDeclarationCode(E, h, e, TRUE)
      [] chosen = "FunctionDeclaration" -> FunctionDeclarationCode(E, h, e, FALSE)
      [] chosen = "EnumDeclaration" -> EnumDeclarationCode(E, h, e, level)
      [] chosen \in {"ClassDeclaration", "StructDeclaration"} ->
            \* ClassDeclaration(element, self.cpp_standard): the second positional
            \* field is docs_generator, so the nested renderer keeps the default
            \* cpp_standard, brace_strategy and visibility
            ClassDeclarationCode(E, h, e, chosen, "KnRStyle", "CPP_11",
                                 RendererVisibility(chosen), level, fuel - 1)
      [] OTHER -> Fail("ValueError", h)

\* what declarations does with the code of member i: it writes the line and
\* goes on with the next member; an error ends the loop
DeclaredMember(E, h, c, cpp_standard, members, i, bs, label, last_visibility, fuel, chosen, code) ==
    IF code.err # "None"
    THEN [err |-> code.err, bs |-> bs, log |-> label, visibility |-> last_visibility]
    ELSE [Declarations(E, h, c, cpp_standard, members, i + 1,
                       write_line(bs, code.text), members[i][2], fuel)
             EXCEPT !.log = label \o <<LogEntry(c, members[i][1], chosen, code.text)>>
                                  \o code.log \o @]

\* ClassDeclaration.declarations from member i on: [err, bs, log, visibility]
Declarations(E, h, c, cpp_standard, members, i, bs, last_visibility, fuel) ==
    IF i > Len(members)
    THEN [err |-> "None", bs |-> bs, log |-> <<>>, visibility |-> last_visibility]
    ELSE LET member == members[i][1]
             member_visibility == members[i][2]
             labelled == member_visibility # last_visibility
             bs1 == IF labelled
                    THEN [write_line([bs EXCEPT !.level = @ - 1],
                                     <<member_visibility \o ":", "\n">>)
                             EXCEPT !.level = bs.level]
                    ELSE bs
             label == IF labelled
                      THEN <<LogEntry(c, 0, "label", <<member_visibility \o ":">>)>>
                      ELSE <<>>
             chosen == build_declaration(E, E[c].name, cpp_standard, member)
         IN  DeclaredMember(E, h, c, cpp_standard, members, i, bs1, label,
                            last_visibility, fuel, chosen,
                            MemberDeclaration(E, h, member, chosen, cpp_standard,
                                              bs.level, fuel))

\* the end of ClassDeclaration.code: the block is closed around what declarations
\* wrote; an error of a member leaves the renderer's visibility as it was
ClosedDeclaration(h, visibility, body) ==
    IF body.err # "None"
    THEN [err |-> body.err, text |-> <<>>, log |-> body.log, heap |-> h,
          visibility |-> visibility]
    ELSE [err |-> "None", text |-> Exit(body.bs).w, log |-> body.log,
          heap |-> h, visibility |-> body.visibility]

\* the start of ClassDeclaration.code: prototype and inheritance, then the block
OpenedDeclaration(E, c, renderer, brace_strategy, level) ==
    Enter(NewBraceStrategy(brace_strategy,
                           class_prototype(E, c, renderer) \o class_inheritance(E, c),
                           level, ";"))

ClassDeclarationCode(E, h, c, renderer, brace_strategy, cpp_standard, visibility, level, fuel) ==
    IF fuel = 0 THEN Fail("RecursionError", h) @@ [visibility |-> visibility]
    ELSE IF TruthyList(E[c].elements)
         THEN ClosedDeclaration(h, visibility,
                  Declarations(E, h, c, cpp_standard, E[c].elements[1], 1,
                               OpenedDeclaration(E, c, renderer, brace_strategy, level),
                               visibility, fuel))
         ELSE ClosedDeclaration(h, visibility,
                  [err |-> "None",
                   bs |-> OpenedDeclaration(E, c, renderer, brace_strategy, level),
                   log |-> <<>>, visibility |-> visibility])

\* the code() of the renderer the factory built for a translation-unit element
MemberDefinition(E, h, e, chosen, cpp_standard) ==
    CASE chosen = "VariableDefinition" -> VariableDefinitionCode(E, h, e)
      [] chosen = "ArrayDefinition" -> ArrayDefinitionCode(E, h, e)
      [] chosen = "ConstructorDefinition" -> ConstructorDefinitionCode(E, h, e, cpp_standard)
      [] chosen = "FunctionDefinition" -> FunctionDefinitionCode(E, h, e)
      [] OTHER -> Fail("ValueError", h)

\* the loop of ClassDefinition.definitions from unit i on; w is the text written
RECURSIVE Definitions(_, _, _, _, _, _, _)
RECURSIVE DefinedUnit(_, _, _, _, _, _, _, _, _)

\* what definitions does with the code of unit i: it writes it after a newline
\* (none before the first) and goes on with the next unit
DefinedUnit(E, h, c, cpp_standard, units, i, w, chosen, code) ==
    IF code.err # "None" THEN code
    ELSE [Definitions(E, code.heap, c, cpp_standard, units, i + 1,
                      w \o (IF i = 1 THEN <<>> ELSE <<"\n">>) \o code.text)
             EXCEPT !.log = <<LogEntry(c, units[i], chosen, code.text)>> \o @]

Definitions(E, h, c, cpp_standard, units, i, w) ==
    IF i > Len(units) THEN Ok(w, h)
    ELSE DefinedUnit(E, h, c, cpp_standard, units, i, w,
                     build_definition(E, E[c].name, units[i]),
                     MemberDefinition(E, h, units[i],
                                      build_definition(E, E[c].name, units[i]),
                                      cpp_standard))

\* ClassDefinition.code
ClassDefinitionCode(E, h, c, cpp_standard) ==
    IF ~TruthyList(E[c].elements) THEN Ok(<<>>, h)
    ELSE LET units == translation_unit_elements(E, h, c, RecursionLimit)
         IN  IF units.err # "None" THEN Fail(units.err, h)
             ELSE Definitions(E, h, c, cpp_standard, units.units, 1, <<>>)

----------------------------------------------------------------------------
(* SpecAdd: the caller constructs elements and adds them to classes *)

AddKinds == {"Class", "Struct", "Variable", "Function"}

\* the i-th object the caller constructs is named after its position
ObjName(i) == <<"A", "B", "C", "D", "E", "F">>[i]

InitAdd ==
    /\ elems = <<>>
    /\ qheap = <<>>
    /\ qtop = NoneRef
    /\ decl = NoneRef
    /\ out = NoOut
    /\ NoRender

\* kind(name=...), a Variable with type int
NewObject ==
    /\ Len(elems) < MaxObjs
    /\ \E kind \in AddKinds :
          LET e == [DefaultElement(kind) EXCEPT
                      !.name = ObjName(Len(elems) + 1),
                      !.type = IF kind = "Variable" THEN "int" ELSE ""]
          IN  /\ PostInit(e) = "None"
              /\ elems' = Append(elems, e)
    /\ out' = NoOut
    /\ UNCHANGED <<qheap, qtop, decl, indents, writers, threads>>

\* the number of add calls made so far
RECURSIVE AddsMade(_, _)
AddsMade(E, i) ==
    IF i > Len(E) THEN 0 ELSE Len(ListOf(E[i].elements)) + AddsMade(E, i + 1)

\* c.add(e): any element may be passed, the class itself included
AddCall ==
    /\ AddsMade(elems, 1) < MaxAdds
    /\ \E c \in 1..Len(elems), e \in 1..Len(elems) :
          /\ IsClass(elems[c])
          /\ elems' = Add(elems, c, e, DefaultVisibility(elems[c]))
          /\ out' = [op |-> "add", arg |-> <<c, e>>, err |-> "None",
                     text |-> <<>>, log |-> <<>>]
    /\ UNCHANGED <<qheap, qtop, decl, indents, writers, threads>>

\* build_scope(e)
BuildScopeCall ==
    /\ \E e \in 1..Len(elems) :
          LET r == build_scope(elems, e, RecursionLimit)
          IN  out' = [op |-> "build_scope", arg |-> e, err |-> r.err,
                      text |-> r.text, log |-> <<>>]
    /\ UNCHANGED <<elems, qheap, qtop, decl, indents, writers, threads>>

\* translation_unit_elements(c)
TranslationUnitsCall ==
    /\ \E c \in 1..Len(elems) :
          /\ IsClass(elems[c])
          /\ LET r == translation_unit_elements(elems, qheap, c, RecursionLimit)
             IN  out' = [op |-> "translation_unit_elements", arg |-> c, err |-> r.err,
                         text |-> <<>>, log |-> r.units]
    /\ UNCHANGED <<elems, qheap, qtop, decl, indents, writers, threads>>

NextAdd == NewObject \/ AddCall \/ BuildScopeCall \/ TranslationUnitsCall

SpecAdd == InitAdd /\ [][NextAdd]_vars

----------------------------------------------------------------------------
(* Spec: the caller builds a class tree in the builder style,                *)
(* cls.add(Element(...), visibility), and renders declarations and           *)
(* definitions of its classes with fresh renderers                           *)

\* the constructor calls whose result is passed to add
Member(kind, name, type, qualifier, init_value, items) ==
    [kind |-> kind, name |-> name, type |-> type, qualifier |-> qualifier,
     init_value |-> init_value, items |-> items]

Members ==
    { Member("Variable", "x", "int", <<>>, NoneStr, None),
      Member("Variable", "s", "int", <<"Static">>, "1", None),
      Member("Variable", "k", "int", <<"Static", "Const">>, NoneStr, None),
      Member("Variable", "o", "Object", <<"Const", "Static">>, "1", None),
      Member("Variable", "c", "int", <<"Constexpr">>, "1", None),
      Member("Variable", "e", "int", <<"Constexpr">>, NoneStr, None),
      Member("Array", "a", "int", <<>>, NoneStr, Some(<<"1", "2">>)),
      Member("Array", "t", "int", <<"Static", "Const">>, NoneStr, Some(<<"1", "2">>)),
      Member("Function", "A", "", <<>>, NoneStr, None),
      Member("Function", "B", "", <<>>, NoneStr, None),
      Member("Class", "B", "", <<>>, NoneStr, None) }

RenderOps == {"ClassDeclaration", "ClassDefinition"}

\* Class(name='A')
Init ==
    /\ elems = <<[DefaultElement("Class") EXCEPT !.name = "A"]>>
    /\ qheap = <<>>
    /\ qtop = NoneRef
    /\ decl = NoneRef
    /\ out = NoOut
    /\ NoRender

\* parent.add(kind(name=..., ...), visibility) for a constructor call m
AddMember(parent, m, visibility) ==
    LET q == AllocChain(qheap, m.qualifier)
        e == [DefaultElement(m.kind) EXCEPT
                !.name = m.name, !.type = m.type, !.qualifier = q.ref,
                !.init_value = m.init_value, !.items = m.items]
        new == Len(elems) + 1
    IN  /\ IsClass(elems[parent])
        /\ PostInit(e) = "None"
        /\ elems' = Add(Append(elems, e), parent, new, visibility)
        /\ qheap' = q.heap
        /\ out' = [op |-> "add", arg |-> <<parent, new>>, err |-> "None",
                   text |-> <<>>, log |-> <<>>]
        /\ UNCHANGED <<qtop, decl, indents, writers, threads>>

\* parent.add(kind(name=..., ...)): the visibility is the default of add
AddNew ==
    /\ Len(elems) < MaxElems
    /\ \E parent \in 1..Len(elems), m \in Members :
          AddMember(parent, m, DefaultVisibility(elems[parent]))

\* the objects of heap h that existed before a call that started with n objects:
\* what the call allocated is garbage once it returns
Survivors(h, n) == SubSeq(h, 1, n)

\* the class the caller constructed first and renders: the root of the tree
Root == 1

\* the caller gets the result r of the render op(arg); what the render
\* allocated is garbage once it returns.  again records that the call before
\* was the same render, so that the tree was not touched in between
Rendered(op, arg, r) ==
    /\ out' = [op |-> op, arg |-> arg, err |-> r.err, text |-> r.text, log |-> r.log,
               again |-> out.op = op /\ out.arg = arg]
    /\ qheap' = Survivors(r.heap, Len(qheap))

\* the renderer class of the declaration of class c
DeclarationOf(c) ==
    IF IsStruct(elems[c]) THEN "StructDeclaration" ELSE "ClassDeclaration"

\* ClassDeclaration(root, cpp_standard=...).code(), or the StructDeclaration of a
\* Struct, with a fresh renderer and the default KnRStyle
RenderDeclaration ==
    /\ \E c \in {Root}, cpp_standard \in CppStandards :
          Rendered("ClassDeclaration", <<c, cpp_standard>>,
                   ClassDeclarationCode(elems, qheap, c, DeclarationOf(c), "KnRStyle",
                                        cpp_standard,
                                        RendererVisibility(DeclarationOf(c)),
                                        0, RecursionLimit))
    /\ UNCHANGED <<elems, qtop, decl, indents, writers, threads>>

\* ClassDefinition(root, cpp_standard=...).code() with a fresh renderer
RenderDefinition ==
    /\ \E c \in {Root}, cpp_standard \in CppStandards :
          Rendered("ClassDefinition", <<c, cpp_standard>>,
                   ClassDefinitionCode(elems, qheap, c, cpp_standard))
    /\ UNCHANGED <<elems, qtop, decl, indents, writers, threads>>

Next == AddNew \/ RenderDeclaration \/ RenderDefinition

Spec == Init /\ [][Next]_vars

----------------------------------------------------------------------------
(* SpecVis: the caller keeps one declaration renderer for a Class or a       *)
(* Struct, adds members with explicit visibilities and calls code()          *)

VisMembers ==
    { Member("Variable", "x", "int", <<>>, NoneStr, None),
      Member("Struct", "S", "", <<>>, NoneStr, None) }

\* ClassDeclaration(root) / StructDeclaration(root): the renderer object with
\* the defaults of its fields
NewDeclaration(renderer) ==
    [renderer |-> renderer, visibility |-> RendererVisibility(renderer)]

\* root = Class(name='A'); decl = ClassDeclaration(root), or the same with Struct
InitVis ==
    /\ \E kind \in {"Class", "Struct"} :
          /\ elems = <<[DefaultElement(kind) EXCEPT !.name = "A"]>>
          /\ decl = NewDeclaration(kind \o "Declaration")
    /\ qheap = <<>>
    /\ qtop = NoneRef
    /\ out = NoOut
    /\ NoRender

\* parent.add(kind(name=..., ...), visibility=...)
AddVisible ==
    /\ Len(elems) < MaxMembers + 1
    /\ \E parent \in 1..Len(elems), m \in VisMembers, visibility \in Visibilities :
          AddMember(parent, m, visibility)

\* the caller gets the result r of decl.code(); declarations() has stored the
\* last visibility it saw in the renderer
Coded(r) ==
    /\ Rendered("ClassDeclaration", <<Root, "CPP_11">>, r)
    /\ decl' = [decl EXCEPT !.visibility = r.visibility]

\* decl.code(): code() of the renderer object the caller keeps for the root
CodeCall ==
    /\ Coded(ClassDeclarationCode(elems, qheap, Root, decl.renderer, "KnRStyle",
                                  "CPP_11", decl.visibility, 0, RecursionLimit))
    /\ UNCHANGED <<elems, qtop, indents, writers, threads>>

NextVis == AddVisible \/ CodeCall

SpecVis == InitVis /\ [][NextVis]_vars

----------------------------------------------------------------------------
(* SpecNew, continued: the caller hands the element it constructed to the    *)
(* element factory                                                           *)

\* ClassCodeFactory(name, cpp_standard).build_declaration(e) or build_definition(e)
\* for the element constructed last: the renderer class returned as text, or the
\* ValueError raised with the element in its message
BuildElement ==
    /\ elems # <<>>
    /\ \E name \in {"a", "b"}, cpp_standard \in CppStandards,
          op \in {"build_declaration", "build_definition"} :
          LET e == Len(elems)
              renderer == IF op = "build_declaration"
                          THEN build_declaration(elems, name, cpp_standard, e)
                          ELSE build_definition(elems, name, e)
          IN  out' = IF renderer = "ValueError"
                     THEN [Raised(op, <<e, name, cpp_standard>>, "ValueError") EXCEPT
                             !.text = <<"Unsupported ", elems[e].kind, "(name='",
                                        elems[e].name, "', ...)">>]
                     ELSE Returned(op, <<e, name, cpp_standard>>, <<renderer>>)
    /\ UNCHANGED <<elems, qheap, qtop, decl, indents, writers, threads>>

NextNew == Construct \/ BuildElement

SpecNew == InitNew /\ [][NextNew]_vars

----------------------------------------------------------------------------
(* SpecElement: the caller constructs scopes, one element in them, and       *)
(* renders that element on its own with a fresh renderer                     *)

\* the qualifier chains the model gives a Variable, outermost first
VariableQualifiers ==
    { q \in { <<>>, <<"Static">>, <<"Const">>, <<"Constexpr">>,
              <<"Static", "Const">>, <<"Const", "Static">>,
              <<"Static", "Constexpr">>, <<"Inline", "Static", "Constexpr">>,
              <<"Static", "Const", "Volatile">>, <<"Extern", "Const", "Volatile">> } :
        Len(q) <= MaxChain }

\* the constructor calls of the elements the model renders on their own; the
\* fields a call does not pass keep their defaults
Leaves ==
    LET defaults == [prefix |-> "", size_ref |-> FALSE, return_type |-> NoneStr,
                     postfix_qualifier |-> <<>>, args |-> None,
                     implementation_handle |-> NoneStr, context |-> NoneStr]
    IN  { Member("Variable", "x", type, q, init_value, None) @@ defaults :
            type \in {"int", "Object"}, q \in VariableQualifiers,
            init_value \in NewInits }
        \cup { Member("Variable", "x", type, <<>>, init_value, None) @@ defaults :
                 type \in TypeNames, init_value \in NewInits }
        \cup { [size_ref |-> size_ref]
                   @@ Member("Array", "a", "int", q, init_value, items) @@ defaults :
                 q \in {<<>>, <<"Static", "Const">>},
                 init_value \in {NoneStr, "", "0, 0"},
                 items \in {None, Some(<<>>)}, size_ref \in BOOLEAN }
        \cup { [prefix |-> prefix]
                   @@ Member("Enum", "E", "", <<>>, NoneStr, None) @@ defaults :
                 prefix \in NewPrefixes }
        \cup { [return_type |-> return_type, postfix_qualifier |-> postfix, args |-> args]
                   @@ Member("Function", "f", "", q, NoneStr, None) @@ defaults :
                 return_type \in {NoneStr, "int"},
                 q \in {<<>>, <<"Static">>, <<"Virtual">>},
                 postfix \in {p \in {<<>>, <<"Const">>, <<"Const", "Volatile", "Pure">>} :
                                Len(p) <= MaxChain},
                 args \in {None, Some(<< <<"int n", NoneStr>> >>),
                           Some(<< <<"int n", "0">>, <<"char c", NoneStr>> >>)} }
        \cup { Member("Function", "A", "", <<>>, NoneStr, None) @@ defaults }
        \cup { [implementation_handle |-> handle, context |-> context]
                   @@ Member("Function", "g", "", <<>>, NoneStr, None) @@ defaults :
                 handle \in {NoneStr} \cup ImplementationHandles, context \in Contexts }

\* the kinds of the scopes the model constructs elements in
ScopeKinds == {"Class", "Namespace"}

\* n = Variable(name='n', type='size_t'): the variable arrays take as size_ref
InitElement ==
    /\ elems = <<[DefaultElement("Variable") EXCEPT !.name = "n", !.type = "size_t"]>>
    /\ qheap = <<>>
    /\ qtop = NoneRef
    /\ decl = NoneRef
    /\ out = NoOut
    /\ NoRender

\* Class(name='A', ref_to_parent=...) or Namespace(name='N', ref_to_parent=...),
\* before the element to render is constructed
NewScope ==
    /\ Len(elems) < MaxObjs
    /\ Len(elems) = 1 \/ elems[Len(elems)].kind \in ScopeKinds
    /\ \E kind \in ScopeKinds, parent \in 0..Len(elems) :
          /\ parent # NoneRef => elems[parent].kind \in ScopeKinds
          /\ elems' = Append(elems, [DefaultElement(kind) EXCEPT
                                       !.name = IF kind = "Namespace" THEN "N" ELSE "A",
                                       !.ref_to_parent = parent])
    /\ out' = NoOut
    /\ UNCHANGED <<qheap, qtop, decl, indents, writers, threads>>

\* kind(name=..., ..., ref_to_parent=...) for a constructor call m of Leaves
NewLeaf ==
    /\ Len(elems) < MaxObjs + 1
    /\ Len(elems) = 1 \/ elems[Len(elems)].kind \in ScopeKinds
    /\ \E m \in Leaves, parent \in 0..Len(elems) :
          LET q == AllocChain(qheap, m.qualifier)
              postfix == AllocChain(q.heap, m.postfix_qualifier)
              e == [DefaultElement(m.kind) EXCEPT
                      !.name = m.name, !.type = m.type, !.qualifier = q.ref,
                      !.init_value = m.init_value, !.items = m.items,
                      !.prefix = m.prefix,
                      !.size_ref = IF m.size_ref THEN 1 ELSE NoneRef,
                      !.return_type = m.return_type,
                      !.postfix_qualifier = postfix.ref, !.args = m.args,
                      !.implementation_handle = m.implementation_handle,
                      !.context = m.context,
                      !.ref_to_parent = parent]
          IN  /\ parent # NoneRef => elems[parent].kind \in ScopeKinds
              /\ PostInit(e) = "None"
              /\ elems' = Append(elems, e)
              /\ qheap' = postfix.heap
    /\ out' = NoOut
    /\ UNCHANGED <<qtop, decl, indents, writers, threads>>

\* the items the model adds, by their position in the list
ItemNames == <<"b", "a", "c", "d">>

\* Array.add(item) or Enum.add(item, value) on the element constructed last
AddItem ==
    /\ Len(ListOf(elems[Len(elems)].items)) < MaxAdds
    /\ \E value \in {NoneStr, "", "0"} :
          LET e == elems[Len(elems)]
              item == ItemNames[(Len(ListOf(e.items)) % Len(ItemNames)) + 1]
              items == IF TruthyList(e.items) THEN e.items[1] ELSE <<>>
          IN  \/ /\ IsArray(e)
                 /\ value = NoneStr
                 /\ elems' = [elems EXCEPT
                                ![Len(elems)].items = Some(Append(items, item))]
              \/ /\ IsEnum(e)
                 /\ elems' = [elems EXCEPT
                                ![Len(elems)].items = Some(Append(items, <<item, value>>))]
    /\ out' = NoOut
    /\ UNCHANGED <<qheap, qtop, decl, indents, writers, threads>>

\* the renderers and factories the model calls on an element
ElementOps(e) ==
    IF IsArray(e) THEN {"ArrayDeclaration", "StdArrayDeclaration", "ArrayDefinition"}
    ELSE IF IsVariable(e)
    THEN {"VariableDeclaration", "VariableDefinition", "default_value"}
    ELSE IF IsEnum(e) THEN {"EnumDeclaration"}
    ELSE IF IsFunction(e) THEN {"FunctionDeclaration", "FunctionDefinition"}
    ELSE {}

\* renderer(e).code() of a fresh renderer, or DefaultValueFactory().default_value(e)
ElementCode(op, E, h, e) ==
    CASE op = "VariableDeclaration" -> VariableDeclarationCode(E, h, e)
      [] op = "VariableDefinition" -> VariableDefinitionCode(E, h, e)
      [] op = "default_value" ->
            [err |-> default_value(E, e).err, text |-> default_value(E, e).text,
             log |-> <<>>, heap |-> h]
      [] op = "ArrayDeclaration" -> ArrayDeclarationCode(E, h, e)
      [] op = "StdArrayDeclaration" -> StdArrayDeclarationCode(E, h, e)
      [] op = "ArrayDefinition" -> ArrayDefinitionCode(E, h, e)
      [] op = "EnumDeclaration" -> EnumDeclarationCode(E, h, e, 0)
      [] op = "FunctionDeclaration" -> FunctionDeclarationCode(E, h, e, FALSE)
      [] op = "FunctionDefinition" -> FunctionDefinitionCode(E, h, e)

\* the caller renders the element it constructed last
RenderElement ==
    /\ Len(elems) > 1 /\ elems[Len(elems)].kind \notin ScopeKinds
    /\ \E op \in ElementOps(elems[Len(elems)]) :
          Rendered(op, Len(elems), ElementCode(op, elems, qheap, Len(elems)))
    /\ UNCHANGED <<elems, qtop, decl, indents, writers, threads>>

NextElement == NewScope \/ NewLeaf \/ AddItem \/ RenderElement

SpecElement == InitElement /\ [][NextElement]_vars

----------------------------------------------------------------------------
(* SpecQ: the caller nests Qualifier constructors and renders the chain *)

InitQ ==
    /\ elems = <<>>
    /\ qheap = <<>>
    /\ qtop = NoneRef
    /\ decl = NoneRef
    /\ out = NoOut
    /\ NoRender

\* kind(qtop): wrap the chain built so far in one more decorator
NewQualifier ==
    /\ Len(qheap) < MaxChain
    /\ \E kind \in QualifierKinds :
          /\ qheap' = Append(qheap, QualifierNode(kind, qtop))
          /\ qtop' = Len(qheap) + 1
    /\ out' = NoOut
    /\ UNCHANGED <<elems, decl, indents, writers, threads>>

\* qtop()
CallQualifier ==
    /\ qtop # NoneRef
    /\ out' = Returned("Qualifier.__call__", qtop, QualifierCall(qheap, qtop))
    /\ UNCHANGED <<elems, qheap, qtop, decl, indents, writers, threads>>

\* is_const(qtop), is_constexpr(qtop) or is_static(qtop); qtop may be None
PredicateCall ==
    /\ \E kind \in {"Const", "Constexpr", "Static"} :
          out' = Returned("is_" \o Keyword(kind), <<qtop, kind>>,
                          <<ToString(IsKind(qheap, qtop, kind))>>)
    /\ UNCHANGED <<elems, qheap, qtop, decl, indents, writers, threads>>

\* reduce_qualifiers(qtop, exclude): the chain is relinked in the heap, the
\* caller gets the reference result.  chain keeps the kinds of the links of
\* the chain as it was passed in
ReduceCall ==
    /\ \E exclude \in SUBSET {"Static", "Const"} :
          /\ qheap' = reduce_qualifiers(qheap, qtop, exclude).heap
          /\ out' = [op |-> "reduce_qualifiers", arg |-> <<qtop, exclude>>,
                     err |-> "None", text |-> <<>>, log |-> <<>>,
                     chain |-> ChainKinds(qheap, qtop),
                     result |-> reduce_qualifiers(qheap, qtop, exclude).ref]
    /\ UNCHANGED <<elems, qtop, decl, indents, writers, threads>>

NextQ == NewQualifier \/ CallQualifier \/ PredicateCall \/ ReduceCall

SpecQ == InitQ /\ [][NextQ]_vars

----------------------------------------------------------------------------
(* SpecBrace and SpecThreads: renders step by step.  A thread runs one       *)
(* render: it opens brace blocks, one inside the other as the renderer of a  *)
(* class opens those of its members, writes into the innermost block and     *)
(* leaves the blocks again.  A block on the stack of a thread is the strategy *)
(* object with the references of its writer and its Indentation; entered is  *)
(* the level its Indentation had before __enter__, and alone is the strategy *)
(* as it would be had no other thread made a step.                           *)

\* the texts the model writes into a block
BlockData == {<<"x">>, <<"x", "\n">>}

\* the postfix the model passes with a style: the ';' of a class, an enum or an
\* array in K&R and single-line style, none for the function body in Allman style
BlockPostfix(style) == IF style = "AllmanStyle" THEN NoneStr ELSE ";"

\* the writing steps of a block: the three methods of the strategy, and the
\* visibility label of ClassDeclaration.declarations
BlockMethods == {"write", "write_line", "write_lines", "label"}

\* a thread before its render
IdleThread ==
    [status |-> "idle", blocks |-> <<>>, steps |-> 0, err |-> "None",
     indentation |-> NoneRef, text |-> <<>>, alone |-> <<>>]

\* one thread renders
InitBrace ==
    /\ elems = <<>>
    /\ qheap = <<>>
    /\ qtop = NoneRef
    /\ decl = NoneRef
    /\ out = NoOut
    /\ indents = <<0>>
    /\ writers = <<<<>>>>
    /\ threads = <<IdleThread>>

\* two threads render, each a tree of its own
InitThreads ==
    /\ elems = <<>>
    /\ qheap = <<>>
    /\ qtop = NoneRef
    /\ decl = NoneRef
    /\ out = NoOut
    /\ indents = <<0>>
    /\ writers = <<<<>>>>
    /\ threads = <<IdleThread, IdleThread>>

\* the enter and write steps the threads have made
RECURSIVE StepsMade(_)
StepsMade(n) == IF n = 0 THEN 0 ELSE threads[n].steps + StepsMade(n - 1)

\* CodeStyleFactory.__call__ taking the Indentation the class BraceStrategy
\* holds as the default of its field when the caller passes none
CodeStyleFactoryDefault(I, style, stream, indentation, postfix) ==
    [indents |-> I,
     bs |-> [style |-> style, writer |-> stream,
             indentation |-> IF indentation = NoneRef THEN 1 ELSE indentation,
             postfix |-> postfix, is_ended_with_newline |-> FALSE]]

\* CodeStyleFactory.__call__(stream, indentation, postfix) on the heap I of
\* Indentation objects: 'indentation if indentation else Indentation()'
CodeStyleFactoryCall(I, style, stream, indentation, postfix) ==
    [indents |-> IF indentation = NoneRef THEN Append(I, 0) ELSE I,
     bs |-> [style |-> style, writer |-> stream,
             indentation |-> IF indentation = NoneRef THEN Len(I) + 1 ELSE indentation,
             postfix |-> postfix, is_ended_with_newline |-> FALSE]]

\* block b as its methods see it: with the text of its writer in W and the level
\* of its Indentation in I
Strategy(W, I, b) ==
    [style |-> b.style, w |-> W[b.writer], level |-> I[b.indentation],
     postfix |-> b.postfix, is_ended_with_newline |-> b.is_ended_with_newline]

\* block b after a method that left the strategy as r
After(b, r, alone) ==
    [b EXCEPT !.is_ended_with_newline = r.is_ended_with_newline, !.alone = alone]

\* one writing step on strategy bs; the label is written one level further out
BlockWrite(method, bs, data) ==
    CASE method = "write" -> write(bs, data)
      [] method = "write_line" -> write_line(bs, data)
      [] method = "write_lines" -> write_lines(bs, data)
      [] method = "label" ->
            [write_line([bs EXCEPT !.level = @ - 1], <<"public:", "\n">>)
                EXCEPT !.level = bs.level]

\* a renderer's code() up to the start of the body: code = StringIO(),
\* code.write(prototype), style(code, indentation, postfix).__enter__().  The
\* renderer of a member gets the Indentation of the block it is rendered in
EnterBlock ==
    /\ \E t \in 1..Len(threads), style \in BraceStyles :
          LET blocks == threads[t].blocks
              postfix == IF BlockPostfix(style) # NoneStr THEN BlockPostfix(style) ELSE ""
              indentation == IF blocks = <<>> THEN NoneRef
                             ELSE blocks[Len(blocks)].indentation
              made == CodeStyleFactoryCall(indents, style, Len(writers) + 1,
                                           indentation, postfix)
              code == Append(writers, <<"f()">>)
              entered == Enter(Strategy(code, made.indents, made.bs))
              alone == Enter(NewBraceStrategy(style, <<"f()">>,
                                              IF blocks = <<>> THEN 0
                                              ELSE blocks[Len(blocks)].alone.level,
                                              postfix))
              b == [entered |-> made.indents[made.bs.indentation], alone |-> alone]
                      @@ [made.bs EXCEPT
                            !.is_ended_with_newline = entered.is_ended_with_newline]
          IN  /\ threads[t].status \in {"idle", "running"}
              /\ StepsMade(Len(threads)) < MaxSteps
              /\ writers' = [code EXCEPT ![b.writer] = entered.w]
              /\ indents' = [made.indents EXCEPT ![b.indentation] = entered.level]
              /\ threads' = [threads EXCEPT
                               ![t].status = "running",
                               ![t].blocks = Append(@, b),
                               ![t].steps = @ + 1,
                               ![t].indentation = IF blocks = <<>> THEN b.indentation
                                                  ELSE @]
              /\ out' = [op |-> "__enter__", arg |-> t, err |-> "None",
                         text |-> entered.w, log |-> <<>>, style |-> style,
                         entered |-> b.entered, level |-> entered.level]
    /\ UNCHANGED <<elems, qheap, qtop, decl>>

\* the body writes into the innermost block
WriteBlock ==
    /\ \E t \in 1..Len(threads), method \in BlockMethods, data \in BlockData :
          LET blocks == threads[t].blocks
              top == blocks[Len(blocks)]
              r == BlockWrite(method, Strategy(writers, indents, top), data)
          IN  /\ threads[t].status = "running"
              /\ StepsMade(Len(threads)) < MaxSteps
              /\ method = "label" => data = <<"x">>
              /\ writers' = [writers EXCEPT ![top.writer] = r.w]
              /\ indents' = [indents EXCEPT ![top.indentation] = r.level]
              /\ threads' = [threads EXCEPT
                               ![t].blocks[Len(blocks)] =
                                   After(top, r, BlockWrite(method, top.alone, data)),
                               ![t].steps = @ + 1]
              /\ out' = [op |-> method, arg |-> t, err |-> "None", text |-> r.w,
                         log |-> <<>>]
    /\ UNCHANGED <<elems, qheap, qtop, decl>>

\* the body of the innermost block raises
RaiseBlock ==
    /\ \E t \in 1..Len(threads) :
          /\ threads[t].status = "running"
          /\ threads' = [threads EXCEPT ![t].status = "raising",
                                        ![t].err = "RuntimeError"]
          /\ out' = [op |-> "raise", arg |-> t, err |-> "RuntimeError",
                     text |-> <<>>, log |-> <<>>]
    /\ UNCHANGED <<elems, qheap, qtop, decl, indents, writers>>

\* the innermost block of thread t is left without its __exit__
LeaveBlockOpen(t, top, rest, r, alone) ==
    /\ UNCHANGED <<writers, indents>>
    /\ threads' = [threads EXCEPT
                     ![t].blocks = rest,
                     ![t].status = IF rest # <<>> THEN @
                                   ELSE IF @ = "raising" THEN "raised" ELSE "returned"]
    /\ out' = [op |-> "__exit__", arg |-> t, err |-> threads[t].err,
               text |-> writers[top.writer], log |-> <<>>, style |-> top.style,
               entered |-> top.entered, level |-> indents[top.indentation],
               before |-> writers[top.writer], postfix |-> top.postfix]

\* the with statement leaves the innermost block of thread t: __exit__ left its
\* strategy as r.  On the normal path code() returns code.getvalue(), to the
\* caller or to the write_line of the block around; an error goes on to the
\* block around
LeaveBlock(t, top, rest, r, alone) ==
    LET closedW == [writers EXCEPT ![top.writer] = r.w]
        closedI == [indents EXCEPT ![top.indentation] = r.level]
        raising == threads[t].status = "raising"
        outer == rest[Len(rest)]
        wr == write_line(Strategy(closedW, closedI, outer), r.w)
    IN  /\ IF rest = <<>>
           THEN /\ writers' = closedW
                /\ indents' = closedI
                /\ threads' = [threads EXCEPT
                                 ![t].blocks = <<>>,
                                 ![t].status = IF raising THEN "raised" ELSE "returned",
                                 ![t].text = IF raising THEN <<>> ELSE r.w,
                                 ![t].alone = IF raising THEN <<>> ELSE alone.w]
           ELSE IF raising
           THEN /\ writers' = closedW
                /\ indents' = closedI
                /\ threads' = [threads EXCEPT
                                 ![t].blocks =
                                     [rest EXCEPT ![Len(rest)].alone.level = alone.level]]
           ELSE /\ writers' = [closedW EXCEPT ![outer.writer] = wr.w]
                /\ indents' = [closedI EXCEPT ![outer.indentation] = wr.level]
                /\ threads' = [threads EXCEPT
                                 ![t].blocks =
                                     [rest EXCEPT ![Len(rest)] =
                                         After(outer, wr,
                                               write_line([outer.alone EXCEPT
                                                             !.level = alone.level],
                                                          alone.w))]]
        /\ out' = [op |-> "__exit__", arg |-> t, err |-> threads[t].err,
                   text |-> r.w, log |-> <<>>, style |-> top.style,
                   entered |-> top.entered, level |-> r.level,
                   before |-> writers[top.writer], postfix |-> top.postfix]

\* the end of a with block, reached by the end of the body or by an error in it
ExitBlock ==
    /\ \E t \in 1..Len(threads) :
          /\ threads[t].status \in {"running", "raising"}
          /\ LeaveBlock(t, threads[t].blocks[Len(threads[t].blocks)],
                        SubSeq(threads[t].blocks, 1, Len(threads[t].blocks) - 1),
                        Exit(Strategy(writers, indents,
                                      threads[t].blocks[Len(threads[t].blocks)])),
                        Exit(threads[t].blocks[Len(threads[t].blocks)].alone))
    /\ UNCHANGED <<elems, qheap, qtop, decl>>

NextBrace == EnterBlock \/ WriteBlock \/ RaiseBlock \/ ExitBlock

SpecBrace == InitBrace /\ [][NextBrace]_vars

SpecThreads == InitThreads /\ [][NextBrace]_vars

----------------------------------------------------------------------------
(* C1: rendering a Qualifier chain of any depth yields the keywords of all  *)
(* its links, outermost to innermost, joined by single spaces.              *)
C1_RenderJoinsAllKeywords ==
    out.op = "Qualifier.__call__" =>
        out.text = Join(<<" ">>, Keywords(ChainKinds(qheap, out.arg)))

(* C7: constructing any language element with an empty name fails with a    *)
(* value error, whatever its other fields are; constructing a Variable or   *)
(* Array with an empty type fails with a value error.                       *)
C7_EmptyNameOrTypeFails ==
    out.op = "new" =>
        /\ out.arg.name = "" => out.err = "ValueError"
        /\ IsVariable(out.arg) /\ out.arg.type = "" => out.err = "ValueError"

\* the children a class lists
Children(E, c) == {ListOf(E[c].elements)[i][1] : i \in 1..Len(ListOf(E[c].elements))}

(* C8: after any sequence of add calls, every child listed in the elements  *)
(* of a Class or Struct has its ref_to_parent equal to that Class/Struct.   *)
C8_ChildrenPointToOwner ==
    \A c \in 1..Len(elems) : \A e \in Children(elems, c) : elems[e].ref_to_parent = c

\* the elements reached from e through one or more ref_to_parent links
RECURSIVE Ancestors(_, _, _)
Ancestors(E, e, n) ==
    IF n = 0 \/ E[e].ref_to_parent = NoneRef THEN {}
    ELSE {E[e].ref_to_parent} \cup Ancestors(E, E[e].ref_to_parent, n - 1)

\* the elements reached from c through one or more elements links
RECURSIVE Descendants(_, _, _)
Descendants(E, c, n) ==
    IF n = 0 THEN {}
    ELSE Children(E, c) \cup UNION {Descendants(E, d, n - 1) : d \in Children(E, c)}

(* C9: after any sequence of add calls the element graph has no cycle (no   *)
(* element is its own ancestor through ref_to_parent or its own descendant  *)
(* through elements), so build_scope and the translation-unit walk          *)
(* terminate: neither ends in a recursion error.                            *)
C9_NoCycleWalksTerminate ==
    /\ \A e \in 1..Len(elems) :
          /\ e \notin Ancestors(elems, e, Len(elems))
          /\ e \notin Descendants(elems, e, Len(elems))
    /\ out.op \in {"build_scope", "translation_unit_elements"} =>
          out.err # "RecursionError"

----------------------------------------------------------------------------
\* what the composer of class c logged, in order: its labels and its members
OwnLog(log, c) == SelectSeq(log, LAMBDA entry : entry.owner = c)

\* the visibility before member i of a class: the default of the kind before
\* the first member
VisibilityBefore(E, c, i) ==
    IF i = 1 THEN DefaultVisibility(E[c]) ELSE E[c].elements[1][i - 1][2]

\* the members of c whose visibility differs from the one before
Transitions(E, c) ==
    {i \in 1..Len(ListOf(E[c].elements)) :
        E[c].elements[1][i][2] # VisibilityBefore(E, c, i)}

\* the labels and members a declaration of c is to show, from member i on
RECURSIVE ExpectedLabels(_, _, _)
ExpectedLabels(E, c, i) ==
    IF i > Len(ListOf(E[c].elements)) THEN <<>>
    ELSE (IF i \in Transitions(E, c)
          THEN <<[label |-> E[c].elements[1][i][2] \o ":", elem |-> 0]>> ELSE <<>>)
         \o <<[label |-> "", elem |-> E[c].elements[1][i][1]]>>
         \o ExpectedLabels(E, c, i + 1)

\* the labels and members the log of a declaration shows for class c
ShownLabels(log, c) ==
    [j \in 1..Len(OwnLog(log, c)) |->
        LET entry == OwnLog(log, c)[j]
        IN  IF entry.renderer = "label"
            THEN [label |-> entry.text[1], elem |-> 0]
            ELSE [label |-> "", elem |-> entry.elem]]

\* the visibility-label lines of a text
LabelLines(text) ==
    {j \in 1..Len(text) : text[j] \in {"public:", "private:", "protected:"}}

(* C2: for a Class (default private) or Struct (default public) the         *)
(* declaration render emits as many visibility-label lines as there are     *)
(* adjacent members of different visibility, plus one if the first member   *)
(* differs from the default of the kind; a label stands exactly before the  *)
(* members at such a transition.                                            *)
C2_LabelsOnlyAtTransitions ==
    (out.op = "ClassDeclaration" /\ out.err = "None") =>
        /\ \A c \in 1..Len(elems) : IsClass(elems[c]) =>
              /\ ShownLabels(out.log, c) = ExpectedLabels(elems, c, 1)
              /\ Cardinality({j \in 1..Len(OwnLog(out.log, c)) :
                                 OwnLog(out.log, c)[j].renderer = "label"})
                    = Cardinality(Transitions(elems, c))
        /\ Cardinality(LabelLines(out.text))
              = Cardinality({j \in 1..Len(out.log) : out.log[j].renderer = "label"})

\* the Functions named like the class that directly owns them
IsConstructor(E, e) ==
    /\ IsFunction(E[e])
    /\ E[e].ref_to_parent # NoneRef
    /\ E[e].name = E[E[e].ref_to_parent].name

(* C3: in the class declaration and in the class definition every Function  *)
(* named like the Class/Struct that directly owns it is rendered as a       *)
(* constructor, with no return type, the constructor of a nested class      *)
(* hoisted into the outer definition included.                              *)
C3_ConstructorsHaveNoReturnType ==
    (out.op \in RenderOps /\ out.err = "None") =>
        \A j \in 1..Len(out.log) :
            (out.log[j].elem # 0 /\ IsConstructor(elems, out.log[j].elem)) =>
                /\ out.log[j].renderer \in {"ConstructorDeclaration", "ConstructorDefinition"}
                /\ \A k \in 1..Len(out.log[j].text) :
                       out.log[j].text[k] # function_return_type(elems, out.log[j].elem)

\* every Function, every Variable static, not constexpr and not (const and integral)
Qualifying(E, h, e) ==
    \/ IsFunction(E[e])
    \/ /\ IsVariable(E[e])
       /\ is_static(h, E[e].qualifier)
       /\ ~is_constexpr(h, E[e].qualifier)
       /\ ~(is_const(h, E[e].qualifier) /\ E[e].type \in {"int", "long", "size_t"})

\* the qualifying members of the nested classes of c (in member order, each
\* recursively), then the qualifying direct members of c
RECURSIVE QualifyingOrder(_, _, _, _)
RECURSIVE QualifyingNested(_, _, _, _, _)
QualifyingNested(E, h, members, i, n) ==
    IF i > Len(members) THEN <<>>
    ELSE (IF IsClass(E[members[i][1]]) THEN QualifyingOrder(E, h, members[i][1], n)
          ELSE <<>>) \o QualifyingNested(E, h, members, i + 1, n)

QualifyingOrder(E, h, c, n) ==
    IF n = 0 THEN <<>>
    ELSE LET members == ListOf(E[c].elements)
         IN  QualifyingNested(E, h, members, 1, n - 1)
                 \o SelectSeq([i \in 1..Len(members) |-> members[i][1]],
                              LAMBDA e : Qualifying(E, h, e))

(* C4: the class definition render emits out-of-class definitions for       *)
(* exactly every Function and every Variable that is static, not constexpr  *)
(* and not (const and integral): first those of each nested Class/Struct,   *)
(* recursively and in member order, then the own ones in insertion order.   *)
C4_DefinitionsOfQualifyingMembers ==
    out.op = "ClassDefinition" =>
        /\ out.err = "None"
        /\ [j \in 1..Len(out.log) |-> out.log[j].elem]
              = QualifyingOrder(elems, qheap, out.arg[1], Len(elems))

(* C5: the definition render of a Class/Struct tree without a qualifying    *)
(* translation-unit element returns empty text and raises no error, also    *)
(* when the tree holds a nested Class/Struct without members.               *)
C5_NothingQualifyingRendersEmpty ==
    (/\ out.op = "ClassDefinition"
     /\ QualifyingOrder(elems, qheap, out.arg[1], Len(elems)) = <<>>) =>
        /\ out.err = "None"
        /\ out.text = <<>>

\* the members of class c a constructor initializes: Variables and Arrays
\* neither static nor constexpr, in the order of the member list
Initialized(E, h, c) ==
    SelectSeq([i \in 1..Len(ListOf(E[c].elements)) |-> E[c].elements[1][i][1]],
              LAMBDA m : /\ IsVariable(E[m])
                         /\ ~is_static(h, E[m].qualifier)
                         /\ ~is_constexpr(h, E[m].qualifier))

\* the initializer list of a constructor e: nothing when no member qualifies
ExpectedInitializers(E, h, e, cpp_standard) ==
    LET members == Initialized(E, h, E[e].ref_to_parent)
    IN  IF members = <<>> THEN <<>>
        ELSE <<" :", "\n">>
                 \o Join(<<",", "\n">>,
                         [i \in 1..Len(members) |->
                             InitializerCode(E, members[i], cpp_standard)])

\* text starts with head
StartsWith(text, head) ==
    Len(text) >= Len(head) /\ SubSeq(text, 1, Len(head)) = head

(* C6: a constructor definition emits an initializer list with one entry    *)
(* for every member of the owning Class that is a Variable or Array and     *)
(* neither static nor constexpr, and for no other; the entries follow the   *)
(* member order, are joined by a comma and a newline and preceded by ' :'   *)
(* and a newline; no list is emitted when no member qualifies.              *)
C6_InitializerList ==
    (out.op = "ClassDefinition" /\ out.err = "None") =>
        \A j \in 1..Len(out.log) :
            out.log[j].renderer = "ConstructorDefinition" =>
                LET e == out.log[j].elem
                    head == function_prototype(elems, qheap, e, TRUE).text
                    list == ExpectedInitializers(elems, qheap, e, out.arg[2])
                    text == out.log[j].text
                    rest == SubSeq(text, Len(head) + Len(list) + 1, Len(text))
                IN  /\ StartsWith(text, head \o list)
                    /\ StartsWith(rest, <<" {">>)
                    /\ \A k \in 1..Len(rest) : rest[k] \notin {" :", ","}

\* a constructor definition of a class with two members to initialize
C6_Witness ==
    /\ out.op = "ClassDefinition" /\ out.err = "None"
    /\ \E j \in 1..Len(out.log) :
          /\ out.log[j].renderer = "ConstructorDefinition"
          /\ Len(Initialized(elems, qheap, elems[out.log[j].elem].ref_to_parent)) = 2
          /\ \E k \in 1..Len(out.log[j].text) : out.log[j].text[k] = ","

(* C10: a declaration or definition render leaves the element tree          *)
(* unchanged: every element's fields and every link of every qualifier      *)
(* chain are after the render what they were before; static is stripped     *)
(* for a definition on a copy of the chain.                                 *)
C10_RenderLeavesTreeUnchanged ==
    [][out'.op \in RenderOps => (elems' = elems /\ qheap' = qheap)]_vars

\* a definition was rendered for a static member whose chain has two links,
\* and the member is still static
C10_Witness ==
    /\ out.op = "ClassDefinition" /\ out.err = "None"
    /\ \E j \in 1..Len(out.log) :
          /\ out.log[j].renderer = "VariableDefinition"
          /\ Len(ChainKinds(qheap, elems[out.log[j].elem].qualifier)) = 2
          /\ is_static(qheap, elems[out.log[j].elem].qualifier)
          /\ \A k \in 1..Len(out.log[j].text) : out.log[j].text[k] # "static"

(* C11: a render of the same unchanged tree, made again with a freshly      *)
(* constructed renderer, strategy and writer, has the outcome of the render *)
(* before it: the same text, or the same error.                             *)
C11_FreshRendersAgree ==
    [][(out'.op \in RenderOps /\ out'.again) =>
           (out'.err = out.err /\ out'.text = out.text)]_vars

\* a tree was rendered twice in a row, to a text and to a value error
C11_Witness ==
    /\ out.op \in RenderOps
    /\ out.again
    /\ out.err = "None"
    /\ Len(ListOf(elems[Root].elements)) > 1

C11_WitnessError ==
    out.op \in RenderOps /\ out.again /\ out.err = "ValueError"

----------------------------------------------------------------------------
\* the text of all the keywords of chain q, each followed by a space
AllQualifiers(h, q) == Concat([i \in 1..Len(ChainKinds(h, q)) |->
                                 <<Keyword(ChainKinds(h, q)[i]), " ">>])

\* the kinds of the links of the chain of element e
KindsOf(e) == {ChainKinds(qheap, elems[e].qualifier)[i] :
                 i \in 1..Len(ChainKinds(qheap, elems[e].qualifier))}

(* C12: VariableDeclaration of a variable whose chain contains constexpr     *)
(* fails with a value error when init_value is absent or empty, and          *)
(* otherwise emits '{qualifiers} {type} {name} = {init_value};', whether or  *)
(* not the variable is a static member of a class.                           *)
C12_ConstexprDeclaration ==
    (out.op = "VariableDeclaration" /\ "Constexpr" \in KindsOf(out.arg)) =>
        IF elems[out.arg].init_value \in {NoneStr, ""}
        THEN out.err = "ValueError"
        ELSE /\ out.err = "None"
             /\ out.text = AllQualifiers(qheap, elems[out.arg].qualifier)
                             \o <<elems[out.arg].type, " ", elems[out.arg].name,
                                  " = ", elems[out.arg].init_value, ";">>

\* element e is a static member of a Class or Struct
StaticMember(e) ==
    /\ elems[e].ref_to_parent # NoneRef
    /\ IsClass(elems[elems[e].ref_to_parent])
    /\ "Static" \in KindsOf(e)

\* '{qualifiers} {type} {name}{rest}' for element e
Declared(e, rest) ==
    AllQualifiers(qheap, elems[e].qualifier) \o <<elems[e].type, " ", elems[e].name>> \o rest

(* C13: for a Variable that is not constexpr, VariableDeclaration emits an   *)
(* initializer exactly when (a) the variable is a static member of a Class,  *)
(* of integral type, with const in its chain: the value is init_value or     *)
(* else the default of the type; or (b) it is not a static class member and  *)
(* has a non-empty init_value and const in its chain.  In every other case   *)
(* it emits the bare form '{qualifiers} {type} {name};'.                     *)
C13_DeclarationInitializer ==
    (out.op = "VariableDeclaration" /\ "Constexpr" \notin KindsOf(out.arg)) =>
        /\ out.err = "None"
        /\ out.text =
              IF /\ StaticMember(out.arg)
                 /\ elems[out.arg].type \in {"int", "long", "size_t"}
                 /\ "Const" \in KindsOf(out.arg)
              THEN Declared(out.arg,
                       <<" = ", IF elems[out.arg].init_value \in {NoneStr, ""}
                                THEN "0" ELSE elems[out.arg].init_value, ";">>)
              ELSE IF /\ ~StaticMember(out.arg)
                      /\ elems[out.arg].init_value \notin {NoneStr, ""}
                      /\ "Const" \in KindsOf(out.arg)
                   THEN Declared(out.arg, <<" = ", elems[out.arg].init_value, ";">>)
                   ELSE Declared(out.arg, <<";">>)

\* the names of the ancestors of e, outermost first, each followed by '::'
RECURSIVE ScopeOf(_, _)
ScopeOf(e, n) ==
    IF n = 0 \/ elems[e].ref_to_parent = NoneRef THEN <<>>
    ELSE ScopeOf(elems[e].ref_to_parent, n - 1)
            \o <<elems[elems[e].ref_to_parent].name \o "::">>

\* the keywords of the links of element e that are not static, in order, each
\* followed by a space
NonStaticQualifiers(e) ==
    LET kinds == SelectSeq(ChainKinds(qheap, elems[e].qualifier),
                           LAMBDA kind : kind # "Static")
    IN  Concat([i \in 1..Len(kinds) |-> <<Keyword(kinds[i]), " ">>])

\* the default value of a type, "" for a type that has none
TypeDefault(type) ==
    IF type \in {"int", "long", "size_t"} THEN "0"
    ELSE IF type \in {"std::string", "char *"} THEN "\"\""
    ELSE IF type \in {"float", "double"} THEN "0.0"
    ELSE ""

\* the value of variable e: init_value when present, else the type's default
ValueOf(e) ==
    IF elems[e].init_value \notin {NoneStr, ""} THEN elems[e].init_value
    ELSE TypeDefault(elems[e].type)

(* C14: VariableDefinition emits '{qualifiers} {type} {scope}{name} =        *)
(* {value};': qualifiers is the chain with every static link removed and the *)
(* other links in order, scope the names of all ancestors through            *)
(* ref_to_parent, outermost first, each followed by '::', and value the      *)
(* init_value when present and otherwise the default value of the type.      *)
C14_VariableDefinition ==
    (out.op = "VariableDefinition" /\ ValueOf(out.arg) # "") =>
        /\ out.err = "None"
        /\ out.text = NonStaticQualifiers(out.arg)
                        \o <<elems[out.arg].type, " ">> \o ScopeOf(out.arg, Len(elems))
                        \o <<elems[out.arg].name, " = ", ValueOf(out.arg), ";">>

(* C15: default-value synthesis returns the init_value when one is present;  *)
(* otherwise '0' for int, long and size_t, '""' for a type name containing   *)
(* 'string' or 'char', '0.0' for one containing 'float' or 'double'; for any *)
(* other type it fails with a value error whose message names the variable   *)
(* and its type, and returns no value.                                       *)
C15_DefaultValue ==
    out.op = "default_value" =>
        IF ValueOf(out.arg) # ""
        THEN out.err = "None" /\ out.text = <<ValueOf(out.arg)>>
        ELSE /\ out.err = "ValueError"
             /\ \E i \in 1..Len(out.text) : out.text[i] = elems[out.arg].name
             /\ \E i \in 1..Len(out.text) : out.text[i] = elems[out.arg].type

\* the default value of a variable of an unknown type without init_value was asked
C15_Witness ==
    /\ out.op = "default_value"
    /\ elems[out.arg].type = "Object"
    /\ elems[out.arg].init_value = NoneStr
    /\ out.err = "ValueError"

\* every type with a default, and an init_value, were asked
C15_WitnessValues ==
    /\ out.op = "default_value"
    /\ out.err = "None"
    /\ out.text \in {<<"0">>, <<"\"\"">>, <<"0.0">>, <<"1">>}

\* the text between the braces of a block, without its indentation and newlines
BraceBody(text) ==
    LET open == CHOOSE i \in 1..Len(text) : text[i] = " {"
        close == CHOOSE i \in 1..Len(text) : text[i] = "}"
    IN  SelectSeq(SubSeq(text, open + 1, close - 1), LAMBDA t : t \notin {"\t", "\n"})

\* the items of array e joined by commas
JoinedItems(e) ==
    Join(<<",">>, [i \in 1..Len(ListOf(elems[e].items)) |-> <<ListOf(elems[e].items)[i]>>])

(* C16 as claimed: ArrayDefinition uses the comma-joined items as the brace  *)
(* body whenever the array has at least one item, and the init_value string  *)
(* verbatim only when the array has no items.                                *)
C16_ItemsBeforeInitValue ==
    (out.op = "ArrayDefinition" /\ out.err = "None") =>
        BraceBody(out.text) =
            IF Len(ListOf(elems[out.arg].items)) > 0 THEN JoinedItems(out.arg)
            ELSE IF elems[out.arg].init_value = NoneStr THEN <<>>
            ELSE Tok(elems[out.arg].init_value)

(* C16 amended: ArrayDefinition uses the init_value string verbatim as the   *)
(* brace body whenever init_value is non-empty, and the comma-joined items   *)
(* only when init_value is absent or empty.                                  *)
C16_InitValueBeforeItems ==
    (out.op = "ArrayDefinition" /\ out.err = "None") =>
        BraceBody(out.text) =
            IF elems[out.arg].init_value \notin {NoneStr, ""}
            THEN <<elems[out.arg].init_value>>
            ELSE JoinedItems(out.arg)

\* an array with items and an init_value was defined
C16_Witness ==
    /\ out.op = "ArrayDefinition"
    /\ out.err = "None"
    /\ Len(ListOf(elems[out.arg].items)) > 1
    /\ elems[out.arg].init_value = "0, 0"

\* the size an array declaration shows: what follows '[' or ', '
SizeShown(text) ==
    text[(CHOOSE i \in 1..Len(text) : text[i] \in {"[", ", "}) + 1]

(* C17: the size in an array declaration, raw array and std::array alike, is *)
(* the name of the size-reference variable whenever a size reference is set, *)
(* whatever the item count; otherwise the number of items added; otherwise 0 *)
(* when no item was added.                                                   *)
C17_ArraySize ==
    out.op \in {"ArrayDeclaration", "StdArrayDeclaration"} =>
        /\ out.err = "None"
        /\ SizeShown(out.text) =
              IF elems[out.arg].size_ref # NoneRef
              THEN elems[elems[out.arg].size_ref].name
              ELSE IF Len(ListOf(elems[out.arg].items)) > 0
                   THEN ToString(Len(ListOf(elems[out.arg].items)))
                   ELSE "0"

\* an array with a size reference and items was declared
C17_Witness ==
    /\ out.op \in {"ArrayDeclaration", "StdArrayDeclaration"}
    /\ elems[out.arg].size_ref # NoneRef
    /\ Len(ListOf(elems[out.arg].items)) > 1

\* the string a text spells
RECURSIVE Flat(_)
Flat(text) == IF text = <<>> THEN "" ELSE Head(text) \o Flat(Tail(text))

\* '{prefix}{item}', followed by ' = {value}' when the value is not none, for
\* the items of enum e from item i on, joined by commas
RECURSIVE EnumItems(_, _)
EnumItems(e, i) ==
    IF i > Len(ListOf(elems[e].items)) THEN ""
    ELSE elems[e].prefix \o elems[e].items[1][i][1]
           \o (IF elems[e].items[1][i][2] # NoneStr
               THEN " = " \o elems[e].items[1][i][2] ELSE "")
           \o (IF i < Len(elems[e].items[1]) THEN "," ELSE "")
           \o EnumItems(e, i + 1)

(* C18: EnumDeclaration emits the items in insertion order, comma-joined,    *)
(* each as '{prefix}{item}' followed by ' = {value}' exactly when the        *)
(* explicit value of the item is not none (a value of 0 is emitted); the     *)
(* prefix is on every emitted name and the stored names stay unprefixed.     *)
C18_EnumItems ==
    /\ \A e \in 1..Len(elems) : IsEnum(elems[e]) =>
          \A i \in 1..Len(ListOf(elems[e].items)) :
              elems[e].items[1][i][1] = ItemNames[i]
    /\ out.op = "EnumDeclaration" =>
          /\ out.err = "None"
          /\ Flat(BraceBody(out.text)) = EnumItems(out.arg, 1)

\* an enum with a prefix and items with and without a value was declared
C18_Witness ==
    /\ out.op = "EnumDeclaration"
    /\ elems[out.arg].prefix # ""
    /\ Len(ListOf(elems[out.arg].items)) = 3
    /\ elems[out.arg].items[1][1][2] = NoneStr
    /\ elems[out.arg].items[1][2][2] = "0"
    /\ elems[out.arg].items[1][3][2] = ""

\* the renderer the factory is to choose for element el: its class name without
\* 'Declaration' or 'Definition', "" for a kind the factory does not support
RendererFor(el, name, cpp_standard, declaration) ==
    CASE el.kind = "Variable" -> "Variable"
      [] el.kind = "Array" ->
            IF declaration /\ cpp_standard = "CPP_11" THEN "StdArray" ELSE "Array"
      [] el.kind = "Function" -> IF el.name = name THEN "Constructor" ELSE "Function"
      [] el.kind = "Struct" -> "Struct"
      [] el.kind = "Class" -> "Class"
      [] el.kind = "Enum" -> "Enum"
      [] OTHER -> ""

\* the factory call returned the renderer, or failed with a value error that
\* identifies the element when there is none
Resolved(renderer, suffix) ==
    IF renderer # ""
    THEN out.err = "None" /\ out.text = <<renderer \o suffix>>
    ELSE /\ out.err = "ValueError"
         /\ \E i \in 1..Len(out.text) : out.text[i] = elems[out.arg[1]].name

(* C19 as claimed: the element factory resolves a Variable to the variable   *)
(* renderer (an Array to the array renderer, std::array declaration under    *)
(* the modern standard and raw array declaration under the legacy one), a    *)
(* Function to the constructor renderer iff its name is the owning class     *)
(* name and else to the function renderer, a Struct to the struct renderer,  *)
(* any other Class to the class renderer, an Enum to the enum renderer;      *)
(* every other kind fails with a value error identifying the element.        *)
C19_FactoryResolves ==
    /\ out.op = "build_declaration" =>
          Resolved(RendererFor(elems[out.arg[1]], out.arg[2], out.arg[3], TRUE),
                   "Declaration")
    /\ out.op = "build_definition" =>
          Resolved(RendererFor(elems[out.arg[1]], out.arg[2], out.arg[3], FALSE),
                   "Definition")

(* C19 amended: as claimed for build_declaration; build_definition resolves  *)
(* a Variable, an Array, a Function, a Struct and a Class in the same way    *)
(* and fails with a value error identifying the element for every other     *)
(* kind, an Enum included.                                                   *)
C19_FactoryResolvesNoEnumDefinition ==
    /\ out.op = "build_declaration" =>
          Resolved(RendererFor(elems[out.arg[1]], out.arg[2], out.arg[3], TRUE),
                   "Declaration")
    /\ out.op = "build_definition" =>
          Resolved(IF IsEnum(elems[out.arg[1]]) THEN ""
                   ELSE RendererFor(elems[out.arg[1]], out.arg[2], out.arg[3], FALSE),
                   "Definition")

\* the factory was asked for the definition renderer of an Enum
C19_Witness ==
    /\ out.op = "build_definition"
    /\ IsEnum(elems[out.arg[1]])
    /\ out.err = "ValueError"

\* the arguments of function e from argument i on, joined by ', ', with their
\* default values when defaults
RECURSIVE ArgsOf(_, _, _)
ArgsOf(e, i, defaults) ==
    IF i > Len(ListOf(elems[e].args)) THEN ""
    ELSE elems[e].args[1][i][1]
           \o (IF defaults /\ elems[e].args[1][i][2] \notin {NoneStr, ""}
               THEN " = " \o elems[e].args[1][i][2] ELSE "")
           \o (IF i < Len(elems[e].args[1]) THEN ", " ELSE "")
           \o ArgsOf(e, i + 1, defaults)

\* the keywords of all the links of the postfix qualifier of e, a space before each
PostfixOf(e) ==
    Flat([i \in 1..Len(ChainKinds(qheap, elems[e].postfix_qualifier)) |->
             " " \o Keyword(ChainKinds(qheap, elems[e].postfix_qualifier)[i])])

\* the return type of function e, void when it has none
ReturnTypeOf(e) ==
    IF elems[e].return_type \in {NoneStr, ""} THEN "void" ELSE elems[e].return_type

\* the text before the opening brace
BeforeBrace(text) ==
    SubSeq(text, 1, (CHOOSE i \in 1..Len(text) : text[i] = " {") - 1)

(* C20: the prototype of a function definition is '{return_type}             *)
(* {scope}{name}({args}){postfix_qualifier}': it has the fully qualified    *)
(* scope and the postfix qualifier, lists the arguments without their        *)
(* default values, and omits the prefix qualifier, which the declaration     *)
(* shows together with the default values.                                   *)
C20_FunctionPrototype ==
    /\ out.op = "FunctionDefinition" =>
          /\ out.err = "None"
          /\ Flat(BeforeBrace(out.text)) =
                ReturnTypeOf(out.arg) \o " " \o Flat(ScopeOf(out.arg, Len(elems)))
                  \o elems[out.arg].name \o "(" \o ArgsOf(out.arg, 1, FALSE) \o ")"
                  \o PostfixOf(out.arg)
    /\ out.op = "FunctionDeclaration" =>
          /\ out.err = "None"
          /\ Flat(out.text) =
                Flat(AllQualifiers(qheap, elems[out.arg].qualifier))
                  \o ReturnTypeOf(out.arg) \o " "
                  \o elems[out.arg].name \o "(" \o ArgsOf(out.arg, 1, TRUE) \o ")"
                  \o PostfixOf(out.arg) \o ";"

(* C22: is_const, is_constexpr and is_static each return true if and only   *)
(* if a link of the respective kind is somewhere in the chain, at any        *)
(* position; each returns false for an absent qualifier.                     *)
C22_PredicatesFindAnyLink ==
    out.op \in {"is_const", "is_constexpr", "is_static"} =>
        out.text = <<ToString(\E i \in 1..Len(ChainKinds(qheap, out.arg[1])) :
                                 ChainKinds(qheap, out.arg[1])[i] = out.arg[2])>>

\* the kind asked for is the innermost of three links
C22_Witness ==
    /\ out.op \in {"is_const", "is_constexpr", "is_static"}
    /\ Len(ChainKinds(qheap, out.arg[1])) = 3
    /\ ChainKinds(qheap, out.arg[1])[3] = out.arg[2]
    /\ ChainKinds(qheap, out.arg[1])[1] # out.arg[2]
    /\ ChainKinds(qheap, out.arg[1])[2] # out.arg[2]
    /\ out.text = <<"TRUE">>

(* C23: reduce_qualifiers(chain, excluded_kinds) returns a chain made of     *)
(* exactly the links of the input whose kind is not excluded, in their       *)
(* original order, for every chain length and every position of the          *)
(* excluded links; the result is empty when every link is excluded.          *)
C23_ReduceKeepsOtherLinks ==
    out.op = "reduce_qualifiers" =>
        ChainKinds(qheap, out.result) =
            SelectSeq(out.chain, LAMBDA kind : kind \notin out.arg[2])

\* excluded links stood at the head and in the middle of a chain of three
C23_Witness ==
    /\ out.op = "reduce_qualifiers"
    /\ Len(out.chain) = 3
    /\ out.chain[1] \in out.arg[2]
    /\ out.chain[2] \in out.arg[2]
    /\ out.chain[3] \notin out.arg[2]
    /\ ChainKinds(qheap, out.result) = <<out.chain[3]>>

\* every link of a chain of three was excluded
C23_WitnessEmpty ==
    /\ out.op = "reduce_qualifiers"
    /\ Len(out.chain) = 3
    /\ out.result = NoneRef

(* C24: a call of reduce_qualifiers does not mutate the chain the caller     *)
(* passes in: after the call that chain has the same links with the same     *)
(* decorators as before.                                                     *)
C24_ReduceLeavesChain ==
    out.op = "reduce_qualifiers" => ChainKinds(qheap, out.arg[1]) = out.chain

(* C30: calling code() twice on the same ClassDeclaration or                 *)
(* StructDeclaration renderer instance, for an unchanged class, returns the  *)
(* same text both times: the first call leaves no state in the renderer that *)
(* changes the visibility labels of the second call.                         *)
C30_KeptRendererRepeats ==
    [][(out'.op = "ClassDeclaration" /\ out'.again) => out'.text = out.text]_vars

\* exactly one of the two logs shows element e with its value: the declaration
\* log declared an entry of e with an initializer, or the definition log
\* defined an entry of e
DefinedOnce(e, declared, defined) ==
    (\E j \in 1..Len(declared) :
        /\ declared[j].elem = e
        /\ \E k \in 1..Len(declared[j].text) : declared[j].text[k] \in {" = ", " ="})
      # (\E j \in 1..Len(defined) : defined[j].elem = e)

\* the static members of the classes in the definition render r, one by one
StaticMembersDefinedOnce(declared, r) ==
    r.err = "None" =>
        \A e \in 1..Len(elems) :
            (IsVariable(elems[e]) /\ StaticMember(e)) => DefinedOnce(e, declared, r.log)

(* C29: for every static Variable member of a Class or Struct, Arrays        *)
(* included, for which the declaration and the definition render succeed,    *)
(* exactly one holds: the class declaration emits the member with an         *)
(* initializer, or the class definition emits an out-of-class definition.    *)
C29_StaticMembersDefinedOnce ==
    (out.op = "ClassDeclaration" /\ out.err = "None") =>
        StaticMembersDefinedOnce(out.log,
                                 ClassDefinitionCode(elems, qheap, out.arg[1], out.arg[2]))

\* the arguments the implementation callable of e is to be called with
ContextOf(e) == IF elems[e].context # NoneStr THEN <<elems[e].context>> ELSE <<>>

(* C25: when a function definition is rendered, the implementation callable  *)
(* is invoked with the context of the element as its sole argument whenever  *)
(* a context was supplied, whatever its value, and with no arguments when    *)
(* none was supplied; a Function without a callable renders an empty body.   *)
C25_ContextPassed ==
    (out.op = "FunctionDefinition" /\ elems[out.arg].implementation_handle # "raises") =>
        /\ out.err = "None"
        /\ BraceBody(out.text) =
              IF elems[out.arg].implementation_handle = NoneStr THEN <<>>
              ELSE CallImplementation(elems[out.arg].implementation_handle,
                                      ContextOf(out.arg)).text

----------------------------------------------------------------------------
\* the tokens of a text after its last line break
LastLine(text) ==
    LET breaks == {i \in 1..Len(text) : text[i] = "\n"}
    IN  SubSeq(text, (IF breaks = {} THEN 0
                      ELSE CHOOSE i \in breaks : \A j \in breaks : j <= i) + 1,
               Len(text))

\* the threads whose render has come to its end
Finished == {t \in 1..Len(threads) : threads[t].status \in {"returned", "raised"}}

(* C26: for the Allman and K&R strategies entering a block raises the depth  *)
(* by one and leaving it lowers the depth by one, so that after a properly   *)
(* nested sequence of enter, write and exit steps the depth is the one       *)
(* before the first enter; the single-line strategy never changes the depth. *)
(* The closing brace is written at the depth that held before the block was  *)
(* entered.                                                                  *)
C26_DepthFollowsNesting ==
    /\ out.op = "__enter__" =>
          out.level = out.entered + (IF out.style = "SingleLineStyle" THEN 0 ELSE 1)
    /\ out.op = "__exit__" =>
          /\ out.level = out.entered
          /\ out.style # "SingleLineStyle" =>
                LastLine(out.text) = Indent(out.entered, <<"}">> \o Tok(out.postfix))
    /\ \A t \in Finished : indents[threads[t].indentation] = 0

\* a block in Allman or K&R style, opened inside another such block, was left
C26_Witness ==
    /\ out.op = "__exit__"
    /\ out.style # "SingleLineStyle"
    /\ out.entered = 1
    /\ threads[out.arg].status = "running"
    /\ threads[out.arg].blocks # <<>>

\* the render of a thread returned after two blocks
C26_WitnessReturned ==
    /\ out.op = "__exit__"
    /\ threads[out.arg].status = "returned"
    /\ threads[out.arg].steps = MaxSteps
    /\ out.style = "SingleLineStyle"

(* C27: for the Allman and K&R strategies, after any sequence of write,      *)
(* write_line and write_lines calls inside the block, none included, the     *)
(* closing brace starts its own line: a newline is written before it exactly *)
(* when the text written so far does not end with one.                       *)
C27_ClosingBraceOnOwnLine ==
    (out.op = "__exit__" /\ out.style # "SingleLineStyle") =>
        /\ out.text = out.before
                         \o (IF EndsWithNewline(out.before) THEN <<>> ELSE <<"\n">>)
                         \o LastLine(out.text)
        /\ \E i \in 1..Len(LastLine(out.text)) : LastLine(out.text)[i] = "}"
        /\ \A i \in 1..Len(LastLine(out.text)) : LastLine(out.text)[i] \in {"\t", "}", ";"}

\* the block was left after a write of text that does not end with a newline
C27_Witness ==
    /\ out.op = "__exit__"
    /\ out.style # "SingleLineStyle"
    /\ out.err = "None"
    /\ ~EndsWithNewline(out.before)

\* the block was left with no write in it
C27_WitnessNoWrite ==
    /\ out.op = "__exit__"
    /\ out.style # "SingleLineStyle"
    /\ threads[out.arg].steps = 1

(* C28: when an error is raised while the body of a brace block is produced, *)
(* the close step of the block still runs: the depth is restored to its      *)
(* value before the block was entered and the closing brace is written, and  *)
(* the error is propagated to the caller.                                    *)
C28_CloseRunsOnError ==
    /\ (out.op = "__exit__" /\ out.err # "None") =>
          /\ out.level = out.entered
          /\ Len(out.text) > Len(out.before)
          /\ SubSeq(out.text, Len(out.text) - Len(Tok(out.postfix)), Len(out.text))
                = <<"}">> \o Tok(out.postfix)
    /\ \A t \in 1..Len(threads) :
          /\ threads[t].err # "None" =>
                threads[t].status \in {"raising", "raised"} /\ threads[t].text = <<>>
          /\ threads[t].status = "raised" =>
                /\ threads[t].err # "None"
                /\ indents[threads[t].indentation] = 0

\* the body of a block inside another block raised and the error has left both
C28_Witness ==
    /\ out.op = "__exit__"
    /\ out.err = "RuntimeError"
    /\ out.style # "SingleLineStyle"
    /\ out.entered = 0
    /\ threads[out.arg].status = "raised"
    /\ Len(writers) > 2

----------------------------------------------------------------------------
(* C21: two renders that run at the same time over different trees, each     *)
(* with a writer and an Indentation of its own, give under every             *)
(* interleaving of their steps the text each gives alone: the renders share  *)
(* no state they change.                                                     *)
C21_ThreadsUndisturbed ==
    \A t \in 1..Len(threads) :
        /\ \A k \in 1..Len(threads[t].blocks) :
              writers[threads[t].blocks[k].writer] = threads[t].blocks[k].alone.w
        /\ threads[t].blocks # <<>> =>
              indents[threads[t].blocks[Len(threads[t].blocks)].indentation]
                 = threads[t].blocks[Len(threads[t].blocks)].alone.level
        /\ threads[t].status = "returned" => threads[t].text = threads[t].alone

\* thread 1 opened its block, then thread 2 opened one, then thread 1 wrote
C21_Witness ==
    /\ Len(threads) = 2
    /\ out.op \in BlockMethods
    /\ out.arg = 1
    /\ threads[2].status = "running"
    /\ threads[2].blocks[1].writer > threads[1].blocks[1].writer

\* both renders have returned their text
C21_WitnessReturned ==
    /\ Len(threads) = 2
    /\ threads[1].status = "returned"
    /\ threads[2].status = "returned"
    /\ threads[1].text # threads[2].text

====
